---- MODULE Spec2Model ----
(***************************************************************************)
(* Model of the Aira chat pipeline (aira_server/src/api/chat.rs) and of    *)
(* the conversation history of the language-model engine                   *)
(* (aira_brain/src/llm.rs, aira_brain/src/aira.rs), and of the emotion     *)
(* tracker behind the camera endpoint (aira_server/src/api/camera.rs).     *)
(*                                                                         *)
(* Texts are sequences of one-character strings; the bullet character the  *)
(* sanitizer writes is the one-element "character" Bullet (3 bytes long).  *)
(***************************************************************************)
EXTENDS Integers, Sequences, FiniteSets, TLC

VARIABLES
    pc,                 \* per request: position of the chat handler
    permits,            \* CHAT_SEMAPHORE: permits available
    semQueue,           \* CHAT_SEMAPHORE: requests waiting, in arrival order
    mutexOwner,         \* SharedAira mutex: request holding it, or NoOwner
    poisoned,           \* SharedAira mutex: poisoned by a panic under the lock
    task,               \* per request: position of the spawned turn task
    llm,                \* per request: position of the blocking LLM closure
    worker,             \* per request: position of the TTS worker
    genIdx,             \* per request: fragments the model has produced so far
    sentence_buffer,    \* per request: the closure's sentence buffer
    tts_chan,           \* per request: chunks queued on the TTS channel
    tts_closed,         \* per request: tts_tx has been dropped
    curChunk,           \* per request: the chunk the worker is synthesizing
    event_chan,         \* per request: events queued on the event channel
    delivered,          \* per request: events the client has received
    connected,          \* per request: the client still holds the stream
    thinkResult,        \* per request: outcome of guard.think
    dispatched,         \* per request: chunks sent to the TTS channel so far
    synthLog,           \* per request: chunk and outcome of each finished synthesis
    history,            \* LlmEngine.history
    emotional_context,  \* LlmEngine.emotional_context
    system_prompt_tokens, \* LlmEngine.system_prompt_tokens
    aira_emotion,       \* Aira.emotional_context
    script,             \* per request: the fragments LanguageModel produces
    pruneStage,         \* position of the pruning harness
    histBefore,         \* pruning harness: history before the call
    new_message_tokens, \* pruning harness: argument of prune_history_to_fit
    tracker,            \* STATE_TRACKER (EmotionalStateTracker)
    now,                \* the system clock, seconds since the epoch
    smoothed_state,     \* what the last tracker.update returned
    raw_state,          \* what the last calculate_emotional_state returned
    frames,             \* camera frames ingested before the repeated one
    free_frames,        \* how many frames precede the repeated one
    lock_to,            \* the feature vector then sent repeatedly
    repeats,            \* how often it has been sent
    machine,            \* state-machine harness: an EmotionStateMachine
    machine_before,     \* state-machine harness: the machine before update
    machine_input,      \* state-machine harness: the context passed to update
    promptStage,        \* prompt harness: position
    new_user_message,   \* prompt harness: the message passed to ask
    prompt,             \* prompt harness: what build_prompt_from_history gave
    cleanStage,         \* sanitizer harness: position
    clean_text,         \* sanitizer harness: the fragment
    cleaned,            \* sanitizer harness: clean_llm_output of the fragment
    recleaned,          \* sanitizer harness: clean_llm_output of that
    stt_pc,             \* per transcription: position in decode_with_ffmpeg
    stt_stamp,          \* per transcription: the millisecond timestamp taken
    temp_files,         \* the /tmp/stt_* files that exist
    emotion_details,    \* what the last get_emotion_details returned
    classify_input,     \* classification harness: the context classified
    classified,         \* classification harness: the labels computed for it
    cam_pc,             \* per emotion-ingestion request: its position
    cam_smoothed        \* per ingestion request: what tracker.update returned

vars == <<pc, permits, semQueue, mutexOwner, poisoned, task, llm, worker,
          genIdx, sentence_buffer, tts_chan, tts_closed, curChunk, event_chan,
          delivered, connected, thinkResult, dispatched, synthLog, history,
          emotional_context, system_prompt_tokens, aira_emotion, script,
          pruneStage, histBefore, new_message_tokens, tracker, now,
          smoothed_state, raw_state, frames, free_frames, lock_to, repeats,
          machine, machine_before, machine_input, promptStage,
          new_user_message, prompt, cleanStage, clean_text, cleaned, recleaned,
          stt_pc,
          stt_stamp, temp_files, emotion_details, classify_input, classified,
          cam_pc, cam_smoothed>>

chatVars == <<pc, permits, semQueue, mutexOwner, poisoned, task, llm, worker,
              genIdx, sentence_buffer, tts_chan, tts_closed, curChunk,
              event_chan, delivered, connected, thinkResult, dispatched,
              synthLog, aira_emotion>>

camVars == <<tracker, now, smoothed_state, raw_state, frames, free_frames,
             lock_to, repeats>>

smVars == <<machine, machine_before, machine_input>>

pruneVars == <<pruneStage, histBefore, new_message_tokens>>

promptVars == <<promptStage, new_user_message, prompt>>

cleanVars == <<cleanStage, clean_text, cleaned, recleaned>>

sttVars == <<stt_pc, stt_stamp, temp_files>>

queryVars == <<emotion_details, classify_input, classified>>

ingestVars == <<cam_pc, cam_smoothed>>

moreVars == <<promptVars, cleanVars, sttVars, queryVars, ingestVars>>

harnessVars == <<pruneVars, camVars, smVars, moreVars>>

----------------------------------------------------------------------------
(* Bounds *)

NumReq == 2
MaxHist == 4
NumStt == 2

Requests == 1..NumReq
SttRequests == 1..NumStt
NumCam == 2
CamRequests == 1..NumCam

----------------------------------------------------------------------------
(* Program constants *)

SEMAPHORE_PERMITS == 1
EVENT_CHANNEL_CAPACITY == 512
TTS_CHANNEL_CAPACITY == 32
SENTENCE_MAX_LEN == 150
max_context_tokens == 1536
SAFETY_BUFFER == 50
CHARS_PER_TOKEN == 4
TOKEN_OVERHEAD == 10
DefaultSystemPromptLen == 76

NoOwner == 0
NoContext == [none |-> TRUE]
Bullet == "BULLET"
Whitespace == {" ", "\n", "\t"}

----------------------------------------------------------------------------
(* Text helpers *)

Last(s) == s[Len(s)]

ByteLen(s) ==
    Len(s) + 2 * Cardinality({i \in 1..Len(s) : s[i] = Bullet})

RECURSIVE Concat(_)
Concat(ss) == IF ss = <<>> THEN <<>> ELSE Head(ss) \o Concat(Tail(ss))

TrimIsEmptyNever(s) == FALSE

\* str::trim().is_empty()
TrimIsEmpty(s) == \A i \in 1..Len(s) : s[i] \in Whitespace

RECURSIVE CleanFromCollapse(_, _, _)
CleanFromCollapse(text, i, result) ==
    IF i > Len(text) THEN result
    ELSE
        LET c == text[i]
            peek == IF i + 1 <= Len(text) THEN text[i + 1] ELSE "EOF"
        IN  IF c = "*" THEN
                IF peek = "*" THEN CleanFromCollapse(text, i + 2, result)
                ELSE IF result = <<>> \/ Last(result) \in {"\n", " "} THEN
                    IF peek = " "
                    THEN CleanFromCollapse(text, i + 2, result \o <<Bullet, " ">>)
                    ELSE CleanFromCollapse(text, i + 1, Append(result, Bullet))
                ELSE CleanFromCollapse(text, i + 1, result)
            ELSE IF c = "_" THEN
                IF peek = "_"
                THEN CleanFromCollapse(text, i + 2, Append(result, "_"))
                ELSE CleanFromCollapse(text, i + 1, result)
            ELSE CleanFromCollapse(text, i + 1, Append(result, c))

\* clean_llm_output: one pass over the characters of a fragment
RECURSIVE CleanFrom(_, _, _)
CleanFrom(text, i, result) ==
    IF i > Len(text) THEN result
    ELSE
        LET c == text[i]
            peek == IF i + 1 <= Len(text) THEN text[i + 1] ELSE "EOF"
        IN  IF c = "*" THEN
                IF peek = "*" THEN CleanFrom(text, i + 2, result)
                ELSE IF result = <<>> \/ Last(result) \in {"\n", " "} THEN
                    IF peek = " "
                    THEN CleanFrom(text, i + 2, result \o <<Bullet, " ">>)
                    ELSE CleanFrom(text, i + 1, Append(result, Bullet))
                ELSE CleanFrom(text, i + 1, result)
            ELSE IF c = "_" THEN
                IF peek = "_" THEN CleanFrom(text, i + 2, result)
                ELSE CleanFrom(text, i + 1, result)
            ELSE CleanFrom(text, i + 1, Append(result, c))

clean_llm_output_collapse(text) == CleanFromCollapse(text, 1, <<>>)

clean_llm_output(text) == CleanFrom(text, 1, <<>>)

----------------------------------------------------------------------------
(* LlmEngine: token accounting and pruning *)

estimate_tokens(len) == (len \div CHARS_PER_TOKEN) + TOKEN_OVERHEAD

saturating_sub(a, b) == IF a > b THEN a - b ELSE 0

----------------------------------------------------------------------------
(* f32 metrics in fixed point: Unit stands for 1.0; the three values       *)
(* outside the finite range stand for +inf, -inf and NaN                   *)

Unit == 1000000
PosInf == 2000000000
NegInf == -2000000000
NaN == 2100000000

Frac(n, d) == (n * Unit) \div d

IsNaN(a) == a = NaN
IsFinite(a) == a \notin {PosInf, NegInf, NaN}

FNeg(a) ==
    CASE a = NaN -> NaN
      [] a = PosInf -> NegInf
      [] a = NegInf -> PosInf
      [] OTHER -> 0 - a

FAdd(a, b) ==
    CASE a = NaN \/ b = NaN -> NaN
      [] a = PosInf -> IF b = NegInf THEN NaN ELSE PosInf
      [] a = NegInf -> IF b = PosInf THEN NaN ELSE NegInf
      [] b \in {PosInf, NegInf} -> b
      [] OTHER -> a + b

FSub(a, b) == FAdd(a, FNeg(b))

\* a * (n / d) for a positive constant n / d
FScale(a, n, d) == IF IsFinite(a) THEN (a * n) \div d ELSE a

\* comparisons with NaN are false
FGt(a, b) == ~IsNaN(a) /\ ~IsNaN(b) /\ a > b
FLt(a, b) == ~IsNaN(a) /\ ~IsNaN(b) /\ a < b

FAbs(a) ==
    CASE a = NaN -> NaN
      [] a = NegInf -> PosInf
      [] OTHER -> IF a < 0 THEN 0 - a ELSE a

\* f32::min returns the other operand when one is NaN
FMin(a, b) ==
    CASE a = NaN -> b
      [] b = NaN -> a
      [] OTHER -> IF a < b THEN a ELSE b

\* f32::clamp keeps NaN
FClamp(a, lo, hi) ==
    CASE a = NaN -> NaN
      [] a < lo -> lo
      [] a > hi -> hi
      [] OTHER -> a

----------------------------------------------------------------------------
(* EmotionalContext *)

Metrics == {"fatigue", "engagement", "stress", "positive_affect"}

EmotionalContext(f, e, s, p, t) ==
    [fatigue |-> f, engagement |-> e, stress |-> s, positive_affect |-> p,
     timestamp |-> t]

get_dominant_emotion(c) ==
    IF FGt(c.fatigue, Frac(7, 10)) THEN "fatigued and low-energy"
    ELSE IF FGt(c.stress, Frac(6, 10)) THEN "stressed or tense"
    ELSE IF FGt(c.positive_affect, Frac(6, 10)) THEN "happy and positive"
    ELSE IF FGt(c.engagement, Frac(7, 10)) THEN "focused and engaged"
    ELSE IF FLt(c.engagement, Frac(3, 10)) THEN "disengaged or distracted"
    ELSE "neutral"

get_recommendations(c) ==
    IF FGt(c.fatigue, Frac(7, 10)) THEN "supportive"
    ELSE IF FGt(c.stress, Frac(6, 10)) THEN "calming"
    ELSE IF FLt(c.engagement, Frac(3, 10)) THEN "engaging"
    ELSE IF FGt(c.positive_affect, Frac(6, 10)) THEN "match energy"
    ELSE "balanced"

DominantLen(c) ==
    CASE get_dominant_emotion(c) = "fatigued and low-energy" -> 23
      [] get_dominant_emotion(c) = "stressed or tense" -> 17
      [] get_dominant_emotion(c) = "happy and positive" -> 18
      [] get_dominant_emotion(c) = "focused and engaged" -> 19
      [] get_dominant_emotion(c) = "disengaged or distracted" -> 24
      [] OTHER -> 7

RecommendationLen(c) ==
    CASE get_recommendations(c) = "supportive" -> 88
      [] get_recommendations(c) = "calming" -> 93
      [] get_recommendations(c) = "engaging" -> 93
      [] get_recommendations(c) = "match energy" -> 79
      [] OTHER -> 68

\* (1 - variance).clamp(0.5, 1.0), the variance taken in thousandths
get_confidence(c) ==
    IF \E m \in Metrics : ~IsFinite(c[m]) THEN NaN
    ELSE LET v(m) == c[m] \div (Unit \div 1000)
             mean == (v("fatigue") + v("engagement") + v("stress")
                      + v("positive_affect")) \div 4
             sq(m) == (v(m) - mean) * (v(m) - mean)
             variance == (sq("fatigue") + sq("engagement") + sq("stress")
                          + sq("positive_affect")) \div 4
         IN  FClamp(Unit - variance, Frac(1, 2), Unit)

\* number of characters of format!("{:.0}", a * 100.0)
PercentLen(a) ==
    IF ~IsFinite(a) THEN 3
    ELSE LET pct == (a * 100 + Unit \div 2) \div Unit
         IN  IF pct >= 100 THEN 3 ELSE IF pct >= 10 THEN 2 ELSE 1

ADVISORY_TEMPLATE_LEN == 138

\* byte length of EmotionalContext::to_llm_context
to_llm_context_len(c) ==
    ADVISORY_TEMPLATE_LEN + DominantLen(c) + RecommendationLen(c)
    + PercentLen(get_confidence(c)) + PercentLen(c.fatigue)
    + PercentLen(c.engagement) + PercentLen(c.stress)
    + PercentLen(c.positive_affect)

ClockStart == 1762000000

\* the context committed for the first frame without a face
NoFaceSmoothed ==
    EmotionalContext(Frac(1, 2), Frac(35, 100), Frac(1, 2), Frac(1, 2), ClockStart)

EmotionChoices == {NoFaceSmoothed}

----------------------------------------------------------------------------
(* camera.rs: EmotionStateMachine and EmotionalStateTracker *)

EmotionStates ==
    {"Neutral", "Engaged", "Fatigued", "Stressed", "Happy", "Disengaged"}

MIN_STATE_DURATION == 3

determine_state(c) ==
    IF FGt(c.fatigue, Frac(7, 10)) THEN "Fatigued"
    ELSE IF FGt(c.stress, Frac(6, 10)) THEN "Stressed"
    ELSE IF FGt(c.positive_affect, Frac(6, 10)) THEN "Happy"
    ELSE IF FGt(c.engagement, Frac(7, 10)) THEN "Engaged"
    ELSE IF FLt(c.engagement, Frac(3, 10)) THEN "Disengaged"
    ELSE "Neutral"

get_signal_strength(c, state) ==
    CASE state = "Fatigued" -> c.fatigue
      [] state = "Stressed" -> c.stress
      [] state = "Happy" -> c.positive_affect
      [] state = "Engaged" -> c.engagement
      [] state = "Disengaged" -> FSub(Unit, c.engagement)
      [] state = "Neutral" -> Frac(1, 2)

should_transition_late(current_state, new_state, signal_strength, state_duration) ==
    /\ new_state # current_state
    /\ \/ FGt(signal_strength, Frac(85, 100))
       \/ state_duration > MIN_STATE_DURATION

should_transition(current_state, new_state, signal_strength, state_duration) ==
    /\ new_state # current_state
    /\ \/ FGt(signal_strength, Frac(85, 100))
       \/ state_duration >= MIN_STATE_DURATION

\* EmotionStateMachine::new
NewStateMachine ==
    [current_state |-> "Neutral", state_duration |-> 0, last_transition |-> 0]

\* EmotionStateMachine::update: the machine after the call
sm_update(sm, c) ==
    LET now_ts == c.timestamp
        duration == saturating_sub(now_ts, sm.last_transition)
        new_state == determine_state(c)
    IN  IF should_transition(sm.current_state, new_state,
                             get_signal_strength(c, new_state), duration)
        THEN [current_state |-> new_state, state_duration |-> 0,
              last_transition |-> now_ts]
        ELSE [sm EXCEPT !.state_duration = duration]

\* EmotionalStateTracker::new at time t
NewTracker(t) ==
    [current |-> EmotionalContext(Frac(1, 2), Frac(1, 2), Frac(1, 2), Frac(1, 2), t),
     previous_raw |-> NoContext,
     state_machine |-> NewStateMachine]

\* alpha = 0.3
apply_ema(cur, new_state) ==
    LET ema(m) == FAdd(FScale(new_state[m], 3, 10), FScale(cur[m], 7, 10))
    IN  EmotionalContext(ema("fatigue"), ema("engagement"), ema("stress"),
                         ema("positive_affect"), new_state.timestamp)

has_significant_change_all(cur, new_state) ==
    \A m \in Metrics :
        FGt(FAbs(FSub(new_state[m], cur[m])), Frac(5, 100))

\* change_threshold = 0.05
has_significant_change(cur, new_state) ==
    \E m \in Metrics :
        FGt(FAbs(FSub(new_state[m], cur[m])), Frac(5, 100))

\* EmotionalStateTracker::update: the tracker after the call and the value
\* returned (NoContext for None)
tracker_update(tr, raw) ==
    LET smoothed == apply_ema(tr.current, raw)
        sm == sm_update(tr.state_machine, smoothed)
    IN  IF has_significant_change(tr.current, smoothed)
        THEN [tracker |-> [current |-> smoothed, previous_raw |-> raw,
                           state_machine |-> sm],
              ret |-> smoothed]
        ELSE [tracker |-> [tr EXCEPT !.state_machine = sm],
              ret |-> NoContext]

\* CameraFeatures; blink_rate, head_pitch and head_yaw in whole units
CameraFeatures(present, confidence, openness, blink, smile, pitch, yaw) ==
    [face_present |-> present, face_confidence |-> confidence,
     avg_eye_openness |-> openness, blink_rate |-> blink,
     smile_score |-> smile, head_pitch |-> pitch, head_yaw |-> yaw]

Abs(n) == IF n < 0 THEN 0 - n ELSE n

calculate_emotional_state(features, now_ts) ==
    IF ~features.face_present
    THEN EmotionalContext(Frac(1, 2), 0, Frac(1, 2), Frac(1, 2), now_ts)
    ELSE
    LET eye_fatigue == FSub(Unit, features.avg_eye_openness)
        blink_fatigue ==
            IF features.blink_rate > 30
            THEN IF features.blink_rate - 30 >= 30 THEN Unit
                 ELSE ((features.blink_rate - 30) * Unit) \div 30
            ELSE 0
        fatigue == FClamp(FAdd(FScale(eye_fatigue, 7, 10),
                               FScale(blink_fatigue, 3, 10)), 0, Unit)
        attention_engagement ==
            IF Abs(features.head_yaw) < 20 /\ Abs(features.head_pitch) < 15
            THEN Frac(8, 10) ELSE Frac(4, 10)
        engagement ==
            FClamp(FAdd(FAdd(FScale(features.face_confidence, 4, 10),
                             FScale(attention_engagement, 3, 10)),
                        FScale(features.avg_eye_openness, 3, 10)), 0, Unit)
        facial_tension == FSub(Unit, features.smile_score)
        eye_strain ==
            IF FGt(eye_fatigue, Frac(1, 2)) /\ FLt(blink_fatigue, Frac(3, 10))
            THEN FScale(eye_fatigue, 1, 2) ELSE 0
        stress == FClamp(FAdd(FScale(facial_tension, 6, 10),
                              FScale(eye_strain, 4, 10)), 0, Unit)
        engagement_bonus == IF FGt(engagement, Frac(6, 10)) THEN Frac(1, 10) ELSE 0
        positive_affect ==
            FClamp(FAdd(features.smile_score, engagement_bonus), 0, Unit)
    IN  EmotionalContext(fatigue, engagement, stress, positive_affect, now_ts)

----------------------------------------------------------------------------
(* LlmEngine: history budget *)

RECURSIVE SumTokens(_)
SumTokens(h) == IF h = <<>> THEN 0 ELSE Head(h).token_count + SumTokens(Tail(h))

total_history_tokens(h) == SumTokens(h)

EmotionOverhead(ctx) ==
    IF ctx = NoContext THEN 0 ELSE estimate_tokens(to_llm_context_len(ctx))

available_tokens(sys, ctx, new) ==
    saturating_sub(
        saturating_sub(saturating_sub(max_context_tokens, sys + EmotionOverhead(ctx)), new),
        SAFETY_BUFFER)

\* the backwards scan: i runs from the newest turn down, current is the sum
\* of the turns already accepted
RECURSIVE ScanFrom(_, _, _, _)
ScanFrom(h, i, current, avail) ==
    IF i = 0 THEN Len(h)
    ELSE IF current + h[i].token_count > avail THEN i
    ELSE ScanFrom(h, i - 1, current + h[i].token_count, avail)

KeepFromIndexTies(h, avail) ==
    LET RECURSIVE Scan(_, _)
        Scan(i, current) ==
            IF i = 0 THEN Len(h)
            ELSE IF current + h[i].token_count >= avail THEN i
            ELSE Scan(i - 1, current + h[i].token_count)
    IN  Scan(Len(h), 0)

KeepFromIndex(h, avail) == ScanFrom(h, Len(h), 0, avail)

prune_history_to_fit(h, sys, ctx, new) ==
    LET keep_from_index == KeepFromIndex(h, available_tokens(sys, ctx, new))
    IN  IF keep_from_index > 0
        THEN SubSeq(h, keep_from_index + 1, Len(h))
        ELSE h

Turn(role, content, tokens) ==
    [role |-> role, content |-> content, token_count |-> tokens]

----------------------------------------------------------------------------
(* The language model's output and the submitted messages *)

ScriptHello == << <<"H", "e", "l">>, <<"l", "o", ".", " ">>,
                  <<"W", "o", "r">>, <<"l", "d">> >>

ScriptBold == << <<"*", "*", "H", "i">>, <<"!">>, <<" ", "O", "k">>, <<".">> >>

ScriptShort == << <<"H", "i", ".">> >>

\* fragments LanguageModel produces for request r, in generation order
ScriptOf(r) == script[r]

\* ChatRequest.message of request r
MessageOf(r) == <<"h", "i">>

----------------------------------------------------------------------------
(* Events and channels *)

TextEvent(data) == [kind |-> "text", data |-> data, chunk |-> 0]
TpsEvent == [kind |-> "tps", data |-> <<"tps">>, chunk |-> 0]
AudioEventFirst(text, idx) == [kind |-> "audio_complete", data |-> text, chunk |-> 1]
AudioEvent(text, idx) == [kind |-> "audio_complete", data |-> text, chunk |-> idx]
ErrorEvent(msg) == [kind |-> "error", data |-> <<msg>>, chunk |-> 0]

BusyStreamEmpty == <<>>

\* the stream returned by the timeout branch
BusyStream == <<ErrorEvent("Server is busy, please try again")>>

ChanSendFront(q, e) == <<e>> \o q

\* mpsc::Sender::send / blocking_send: the value joins the back of the queue
ChanSend(q, e) == Append(q, e)

ChanRecvIndexLast(q) == Len(q)

\* mpsc::Receiver::recv: the position of the value received next
ChanRecvIndex(q) == 1

RemoveAt(q, i) == SubSeq(q, 1, i - 1) \o SubSeq(q, i + 1, Len(q))

CanSendEventWhileConnected(r) ==
    connected[r] /\ Len(event_chan[r]) < EVENT_CHANNEL_CAPACITY

\* a send on the event channel returns at once (Err, ignored) when the
\* receiver is gone, and otherwise waits for room
CanSendEvent(r) ==
    ~connected[r] \/ Len(event_chan[r]) < EVENT_CHANNEL_CAPACITY

EventSend(r, e) ==
    IF connected[r] THEN ChanSend(event_chan[r], e) ELSE event_chan[r]

MutexFreeAlways(owner) == TRUE

\* std::sync::Mutex::lock returns only when no other thread holds the lock
MutexFree(owner) == owner = NoOwner

EndsWithBoundaryTrimmed(buf) ==
    LET RECURSIVE TrimEnd(_)
        TrimEnd(s) == IF s # <<>> /\ Last(s) \in Whitespace
                      THEN TrimEnd(SubSeq(s, 1, Len(s) - 1)) ELSE s
        t == TrimEnd(buf)
    IN  (t # <<>> /\ Last(t) \in {".", "?", "!"}) \/ ByteLen(buf) > SENTENCE_MAX_LEN

EndsWithBoundaryChars(buf) ==
    (buf # <<>> /\ Last(buf) \in {".", "?", "!"}) \/ Len(buf) > SENTENCE_MAX_LEN

\* the sentence-boundary test of the token callback
EndsWithBoundary(buf) ==
    (buf # <<>> /\ Last(buf) \in {".", "?", "!"}) \/ ByteLen(buf) > SENTENCE_MAX_LEN

TaskLive == {"start", "awaitLlm", "joinTts"}
LlmLive == {"start", "gen", "dispatch", "tps", "flush"}
WorkerLive == {"recv", "synth"}

\* some clone of event_tx still exists
SendersAlive(r) ==
    \/ pc[r] = "spawned" /\ task[r] = "none"
    \/ task[r] \in TaskLive
    \/ llm[r] \in LlmLive
    \/ worker[r] \in WorkerLive

\* the client has seen the end of the event stream
StreamClosed(r) ==
    /\ pc[r] \in {"returned", "rejected"}
    /\ ~SendersAlive(r)
    /\ event_chan[r] = <<>>

----------------------------------------------------------------------------
(* Initial state *)

\* no state-machine harness: the machine as constructed
MachineIdle ==
    /\ machine = NewStateMachine
    /\ machine_before = NewStateMachine
    /\ machine_input = NoContext

\* the tracker as constructed, no camera frame yet
TrackerNew ==
    /\ tracker = NewTracker(ClockStart)
    /\ now = ClockStart
    /\ smoothed_state = NoContext
    /\ raw_state = NoContext
    /\ frames = 0
    /\ repeats = 0

NoFeatures == [none |-> TRUE]

CamIdle ==
    /\ TrackerNew
    /\ free_frames = 0
    /\ lock_to = NoFeatures
    /\ MachineIdle

PromptIdle ==
    /\ promptStage = "off"
    /\ new_user_message = <<>>
    /\ prompt = <<>>

CleanIdle ==
    /\ cleanStage = "off"
    /\ clean_text = <<>>
    /\ cleaned = <<>>
    /\ recleaned = <<>>

SttIdle ==
    /\ stt_pc = [q \in SttRequests |-> "absent"]
    /\ stt_stamp = [q \in SttRequests |-> 0]
    /\ temp_files = {}

NoResponse == [none |-> TRUE]

QueryIdle ==
    /\ emotion_details = NoResponse
    /\ classify_input = NoContext
    /\ classified = NoResponse

IngestIdle ==
    /\ cam_pc = [c \in CamRequests |-> "absent"]
    /\ cam_smoothed = [c \in CamRequests |-> NoContext]

MoreIdle == PromptIdle /\ CleanIdle /\ SttIdle /\ QueryIdle /\ IngestIdle

ChatInit ==
    /\ permits = SEMAPHORE_PERMITS
    /\ semQueue = <<>>
    /\ mutexOwner = NoOwner
    /\ poisoned = FALSE
    /\ task = [r \in Requests |-> "none"]
    /\ llm = [r \in Requests |-> "none"]
    /\ worker = [r \in Requests |-> "none"]
    /\ genIdx = [r \in Requests |-> 0]
    /\ sentence_buffer = [r \in Requests |-> <<>>]
    /\ tts_chan = [r \in Requests |-> <<>>]
    /\ tts_closed = [r \in Requests |-> FALSE]
    /\ curChunk = [r \in Requests |-> <<>>]
    /\ event_chan = [r \in Requests |-> <<>>]
    /\ delivered = [r \in Requests |-> <<>>]
    /\ connected = [r \in Requests |-> TRUE]
    /\ thinkResult = [r \in Requests |-> "none"]
    /\ dispatched = [r \in Requests |-> <<>>]
    /\ synthLog = [r \in Requests |-> <<>>]
    /\ aira_emotion = NoContext

Init ==
    /\ ChatInit
    /\ CamIdle
    /\ MoreIdle
    /\ pc = [r \in Requests |-> "idle"]
    /\ script = [r \in Requests |-> ScriptShort]
    /\ history = <<>>
    /\ emotional_context = NoContext
    /\ system_prompt_tokens = DefaultSystemPromptLen \div CHARS_PER_TOKEN
    /\ pruneStage = "off"
    /\ histBefore = <<>>
    /\ new_message_tokens = 0

----------------------------------------------------------------------------
(* chat handler *)

\* semaphore.acquire(): take the permit, or join the wait queue
Arrive(r) ==
    /\ pc[r] = "idle"
    /\ IF permits > 0
       THEN /\ permits' = permits - 1
            /\ pc' = [pc EXCEPT ![r] = "admitted"]
            /\ UNCHANGED semQueue
       ELSE /\ semQueue' = Append(semQueue, r)
            /\ pc' = [pc EXCEPT ![r] = "waiting"]
            /\ UNCHANGED permits
    /\ UNCHANGED <<mutexOwner, poisoned, task, llm, worker, genIdx,
                   sentence_buffer, tts_chan, tts_closed, curChunk, event_chan,
                   delivered, connected, thinkResult, dispatched, history,
                   emotional_context, system_prompt_tokens, aira_emotion>>
    /\ UNCHANGED <<script, synthLog, harnessVars>>

\* timeout(5 s) elapses while the request is still queued
Timeout(r) ==
    /\ pc[r] = "waiting"
    /\ semQueue' = SelectSeq(semQueue, LAMBDA q : q # r)
    /\ pc' = [pc EXCEPT ![r] = "rejected"]
    /\ event_chan' = [event_chan EXCEPT ![r] = BusyStream]
    /\ UNCHANGED <<permits, mutexOwner, poisoned, task, llm, worker, genIdx,
                   sentence_buffer, tts_chan, tts_closed, curChunk,
                   delivered, connected, thinkResult, dispatched, history,
                   emotional_context, system_prompt_tokens, aira_emotion>>
    /\ UNCHANGED <<script, synthLog, harnessVars>>

\* mpsc::channel(512) and tokio::spawn of the turn task
Spawn(r) ==
    /\ pc[r] = "admitted"
    /\ pc' = [pc EXCEPT ![r] = "spawned"]
    /\ task' = [task EXCEPT ![r] = "start"]
    /\ UNCHANGED <<permits, semQueue, mutexOwner, poisoned, llm, worker, genIdx,
                   sentence_buffer, tts_chan, tts_closed, curChunk, event_chan,
                   delivered, connected, thinkResult, dispatched, history,
                   emotional_context, system_prompt_tokens, aira_emotion>>
    /\ UNCHANGED <<script, synthLog, harnessVars>>

\* the handler returns Sse::new(stream); _permit goes out of scope and the
\* permit passes to the first queued request, if any
Return(r) ==
    /\ pc[r] = "spawned"
    /\ IF semQueue # <<>>
       THEN /\ pc' = [pc EXCEPT ![r] = "returned", ![Head(semQueue)] = "admitted"]
            /\ semQueue' = Tail(semQueue)
            /\ UNCHANGED permits
       ELSE /\ pc' = [pc EXCEPT ![r] = "returned"]
            /\ permits' = permits + 1
            /\ UNCHANGED semQueue
    /\ UNCHANGED <<mutexOwner, poisoned, task, llm, worker, genIdx,
                   sentence_buffer, tts_chan, tts_closed, curChunk, event_chan,
                   delivered, connected, thinkResult, dispatched, history,
                   emotional_context, system_prompt_tokens, aira_emotion>>
    /\ UNCHANGED <<script, synthLog, harnessVars>>

----------------------------------------------------------------------------
(* the spawned turn task *)

\* aira_state.lock().unwrap() and get_tts(), then the TTS worker and the
\* blocking LLM closure are started; a poisoned lock panics the task
TaskStart(r) ==
    /\ task[r] = "start"
    /\ MutexFree(mutexOwner)
    /\ IF poisoned
       THEN /\ task' = [task EXCEPT ![r] = "panicked"]
            /\ UNCHANGED <<llm, worker>>
       ELSE /\ task' = [task EXCEPT ![r] = "awaitLlm"]
            /\ llm' = [llm EXCEPT ![r] = "start"]
            /\ worker' = [worker EXCEPT ![r] = "recv"]
    /\ UNCHANGED <<pc, permits, semQueue, mutexOwner, poisoned, genIdx,
                   sentence_buffer, tts_chan, tts_closed, curChunk, event_chan,
                   delivered, connected, thinkResult, dispatched, history,
                   emotional_context, system_prompt_tokens, aira_emotion>>
    /\ UNCHANGED <<script, synthLog, harnessVars>>

\* llm_result arrives; a panicked closure is reported with an error event
TaskAfterLlm(r) ==
    /\ task[r] = "awaitLlm"
    /\ llm[r] \in {"done", "panicked"}
    /\ IF llm[r] = "panicked"
       THEN /\ CanSendEvent(r)
            /\ event_chan' = [event_chan EXCEPT ![r] =
                   EventSend(r, ErrorEvent("Processing failed, please try again"))]
       ELSE UNCHANGED event_chan
    /\ task' = [task EXCEPT ![r] = "joinTts"]
    /\ UNCHANGED <<pc, permits, semQueue, mutexOwner, poisoned, llm, worker,
                   genIdx, sentence_buffer, tts_chan, tts_closed, curChunk,
                   delivered, connected, thinkResult, dispatched, history,
                   emotional_context, system_prompt_tokens, aira_emotion>>
    /\ UNCHANGED <<script, synthLog, harnessVars>>

\* the TTS worker finished within the 15 s join timeout
TaskJoin(r) ==
    /\ task[r] = "joinTts"
    /\ worker[r] = "done"
    /\ task' = [task EXCEPT ![r] = "done"]
    /\ UNCHANGED <<pc, permits, semQueue, mutexOwner, poisoned, llm, worker,
                   genIdx, sentence_buffer, tts_chan, tts_closed, curChunk,
                   event_chan, delivered, connected, thinkResult, dispatched,
                   history, emotional_context, system_prompt_tokens,
                   aira_emotion>>
    /\ UNCHANGED <<script, synthLog, harnessVars>>

\* the 15 s join timeout fires first; the worker is left running
TaskJoinTimeout(r) ==
    /\ task[r] = "joinTts"
    /\ worker[r] # "done"
    /\ task' = [task EXCEPT ![r] = "done"]
    /\ UNCHANGED <<pc, permits, semQueue, mutexOwner, poisoned, llm, worker,
                   genIdx, sentence_buffer, tts_chan, tts_closed, curChunk,
                   event_chan, delivered, connected, thinkResult, dispatched,
                   history, emotional_context, system_prompt_tokens,
                   aira_emotion>>
    /\ UNCHANGED <<script, synthLog, harnessVars>>

----------------------------------------------------------------------------
(* the blocking LLM closure: guard.think(message, callback) *)

UserTokens(r) == estimate_tokens(ByteLen(MessageOf(r)))

AssistantResponseLast(r) ==
    IF genIdx[r] = 0 THEN <<>> ELSE ScriptOf(r)[genIdx[r]]

\* assistant_response: the raw pieces produced so far, concatenated
AssistantResponse(r) == Concat(SubSeq(ScriptOf(r), 1, genIdx[r]))

think_inject_none(aira_ctx) == NoContext

\* Aira::think: the LLM gets the advisory of the context Aira holds at the
\* call, or none when Aira holds none
think_inject(aira_ctx) == aira_ctx

\* aira_state.lock().unwrap(); Aira::think injects the emotional context and
\* LlmEngine::ask prunes the history for the new message
LlmStart(r) ==
    /\ llm[r] = "start"
    /\ MutexFree(mutexOwner)
    /\ IF poisoned
       THEN /\ llm' = [llm EXCEPT ![r] = "panicked"]
            /\ tts_closed' = [tts_closed EXCEPT ![r] = TRUE]
            /\ thinkResult' = [thinkResult EXCEPT ![r] = "poisoned"]
            /\ UNCHANGED <<mutexOwner, history, emotional_context>>
       ELSE /\ llm' = [llm EXCEPT ![r] = "gen"]
            /\ mutexOwner' = r
            /\ emotional_context' = think_inject(aira_emotion)
            /\ history' = prune_history_to_fit(history, system_prompt_tokens,
                                               think_inject(aira_emotion),
                                               UserTokens(r))
            /\ UNCHANGED <<tts_closed, thinkResult>>
    /\ UNCHANGED <<pc, permits, semQueue, poisoned, task, worker, genIdx,
                   sentence_buffer, tts_chan, curChunk, event_chan, delivered,
                   connected, dispatched, system_prompt_tokens, aira_emotion>>
    /\ UNCHANGED <<script, synthLog, harnessVars>>

\* create_session, advance_context or start_completing_with fails: ask
\* returns Err before any fragment, and the closure skips the tps event
LlmAskErr(r) ==
    /\ llm[r] = "gen"
    /\ genIdx[r] = 0
    /\ llm' = [llm EXCEPT ![r] = "flush"]
    /\ mutexOwner' = NoOwner
    /\ thinkResult' = [thinkResult EXCEPT ![r] = "err"]
    /\ UNCHANGED <<pc, permits, semQueue, poisoned, task, worker, genIdx,
                   sentence_buffer, tts_chan, tts_closed, curChunk, event_chan,
                   delivered, connected, dispatched, history, emotional_context,
                   system_prompt_tokens, aira_emotion>>
    /\ UNCHANGED <<script, synthLog, harnessVars>>

\* the model call panics while the guard is held: the lock is poisoned and
\* the closure's captures (tts_tx, event_tx_llm) are dropped
LlmPanic(r) ==
    /\ llm[r] = "gen"
    /\ llm' = [llm EXCEPT ![r] = "panicked"]
    /\ mutexOwner' = NoOwner
    /\ poisoned' = TRUE
    /\ tts_closed' = [tts_closed EXCEPT ![r] = TRUE]
    /\ thinkResult' = [thinkResult EXCEPT ![r] = "panic"]
    /\ sentence_buffer' = [sentence_buffer EXCEPT ![r] = <<>>]
    /\ UNCHANGED <<pc, permits, semQueue, task, worker, genIdx,
                   tts_chan, curChunk, event_chan, delivered,
                   connected, dispatched, history, emotional_context,
                   system_prompt_tokens, aira_emotion>>
    /\ UNCHANGED <<script, synthLog, harnessVars>>

\* one fragment: the callback cleans it, sends the text event and appends it
\* to the sentence buffer
LlmFragment(r) ==
    /\ llm[r] = "gen"
    /\ genIdx[r] < Len(ScriptOf(r))
    /\ CanSendEvent(r)
    /\ LET cleaned_token == clean_llm_output(ScriptOf(r)[genIdx[r] + 1])
           buf == sentence_buffer[r] \o cleaned_token
       IN  /\ event_chan' = [event_chan EXCEPT ![r] =
                                 EventSend(r, TextEvent(cleaned_token))]
           /\ sentence_buffer' = [sentence_buffer EXCEPT ![r] = buf]
           /\ llm' = [llm EXCEPT ![r] =
                         IF EndsWithBoundary(buf) /\ ~TrimIsEmpty(buf)
                         THEN "dispatch" ELSE "gen"]
    /\ genIdx' = [genIdx EXCEPT ![r] = @ + 1]
    /\ UNCHANGED <<pc, permits, semQueue, mutexOwner, poisoned, task, worker,
                   tts_chan, tts_closed, curChunk, delivered, connected,
                   thinkResult, dispatched, history, emotional_context,
                   system_prompt_tokens, aira_emotion>>
    /\ UNCHANGED <<script, synthLog, harnessVars>>

\* tts_tx.blocking_send(sentence_buffer.clone()); sentence_buffer.clear()
LlmDispatch(r) ==
    /\ llm[r] = "dispatch"
    /\ Len(tts_chan[r]) < TTS_CHANNEL_CAPACITY
    /\ tts_chan' = [tts_chan EXCEPT ![r] =
           ChanSend(@, [idx |-> Len(dispatched[r]) + 1, text |-> sentence_buffer[r]])]
    /\ dispatched' = [dispatched EXCEPT ![r] = Append(@, sentence_buffer[r])]
    /\ sentence_buffer' = [sentence_buffer EXCEPT ![r] = <<>>]
    /\ llm' = [llm EXCEPT ![r] = "gen"]
    /\ UNCHANGED <<pc, permits, semQueue, mutexOwner, poisoned, task, worker,
                   genIdx, tts_closed, curChunk, event_chan, delivered,
                   connected, thinkResult, history,
                   emotional_context, system_prompt_tokens, aira_emotion>>
    /\ UNCHANGED <<script, synthLog, harnessVars>>

\* generation ends: ask records the user and assistant turns and returns
\* Ok(tps); the guard is released
LlmFinish(r) ==
    /\ llm[r] = "gen"
    /\ genIdx[r] = Len(ScriptOf(r))
    /\ history' = history \o
           << Turn("user", MessageOf(r), UserTokens(r)),
              Turn("assistant", AssistantResponse(r),
                   estimate_tokens(ByteLen(AssistantResponse(r)))) >>
    /\ mutexOwner' = NoOwner
    /\ thinkResult' = [thinkResult EXCEPT ![r] = "ok"]
    /\ llm' = [llm EXCEPT ![r] = "tps"]
    /\ UNCHANGED <<pc, permits, semQueue, poisoned, task, worker, genIdx,
                   sentence_buffer, tts_chan, tts_closed, curChunk, event_chan,
                   delivered, connected, dispatched, emotional_context,
                   system_prompt_tokens, aira_emotion>>
    /\ UNCHANGED <<script, synthLog, harnessVars>>

\* the tps event after a successful generation
LlmTps(r) ==
    /\ llm[r] = "tps"
    /\ CanSendEvent(r)
    /\ event_chan' = [event_chan EXCEPT ![r] = EventSend(r, TpsEvent)]
    /\ llm' = [llm EXCEPT ![r] = "flush"]
    /\ UNCHANGED <<pc, permits, semQueue, mutexOwner, poisoned, task, worker,
                   genIdx, sentence_buffer, tts_chan, tts_closed, curChunk,
                   delivered, connected, thinkResult, dispatched, history,
                   emotional_context, system_prompt_tokens, aira_emotion>>
    /\ UNCHANGED <<script, synthLog, harnessVars>>

\* the remaining buffer goes to the TTS channel and tts_tx is dropped
LlmFlush(r) ==
    /\ llm[r] = "flush"
    /\ IF ~TrimIsEmpty(sentence_buffer[r])
       THEN /\ Len(tts_chan[r]) < TTS_CHANNEL_CAPACITY
            /\ tts_chan' = [tts_chan EXCEPT ![r] =
                   ChanSend(@, [idx |-> Len(dispatched[r]) + 1,
                                text |-> sentence_buffer[r]])]
            /\ dispatched' = [dispatched EXCEPT ![r] = Append(@, sentence_buffer[r])]
       ELSE UNCHANGED <<tts_chan, dispatched>>
    /\ tts_closed' = [tts_closed EXCEPT ![r] = TRUE]
    /\ llm' = [llm EXCEPT ![r] = "done"]
    /\ sentence_buffer' = [sentence_buffer EXCEPT ![r] = <<>>]
    /\ UNCHANGED <<pc, permits, semQueue, mutexOwner, poisoned, task, worker,
                   genIdx, curChunk, event_chan, delivered,
                   connected, thinkResult, history, emotional_context,
                   system_prompt_tokens, aira_emotion>>
    /\ UNCHANGED <<script, synthLog, harnessVars>>

----------------------------------------------------------------------------
(* the TTS worker *)

SynthOutcomes == {"ok", "synth_err", "encode_err", "panic"}

WorkerAfterPanicStops(outcome) == IF outcome = "panic" THEN "done" ELSE "recv"

\* the worker's loop goes on to the next recv whatever the synthesis did:
\* errors are logged inside the blocking call, a panic after its await
WorkerAfter(outcome) == "recv"

\* tts_rx.recv() yields the next chunk and synthesis starts
WorkerRecv(r) ==
    /\ worker[r] = "recv"
    /\ tts_chan[r] # <<>>
    /\ curChunk' = [curChunk EXCEPT ![r] = tts_chan[r][ChanRecvIndex(tts_chan[r])]]
    /\ tts_chan' = [tts_chan EXCEPT ![r] = RemoveAt(@, ChanRecvIndex(@))]
    /\ worker' = [worker EXCEPT ![r] = "synth"]
    /\ UNCHANGED <<pc, permits, semQueue, mutexOwner, poisoned, task, llm,
                   genIdx, sentence_buffer, tts_closed, event_chan, delivered,
                   connected, thinkResult, dispatched, history,
                   emotional_context, system_prompt_tokens, aira_emotion>>
    /\ UNCHANGED <<script, synthLog, harnessVars>>

\* the spawn_blocking synthesis ends: audio_complete on success, only a log
\* line on a synthesis error, an encoding error or a panic
WorkerSynth(r, outcome) ==
    /\ worker[r] = "synth"
    /\ IF outcome = "ok"
       THEN /\ CanSendEvent(r)
            /\ event_chan' = [event_chan EXCEPT ![r] =
                   EventSend(r, AudioEvent(curChunk[r].text, curChunk[r].idx))]
       ELSE UNCHANGED event_chan
    /\ curChunk' = [curChunk EXCEPT ![r] = <<>>]
    /\ synthLog' = [synthLog EXCEPT ![r] =
                       Append(@, [idx |-> curChunk[r].idx, outcome |-> outcome])]
    /\ worker' = [worker EXCEPT ![r] = WorkerAfter(outcome)]
    /\ UNCHANGED <<pc, permits, semQueue, mutexOwner, poisoned, task, llm,
                   genIdx, sentence_buffer, tts_chan, tts_closed, delivered,
                   connected, thinkResult, dispatched, history,
                   emotional_context, system_prompt_tokens, aira_emotion>>
    /\ UNCHANGED <<script, harnessVars>>

\* tts_rx.recv() yields None: the channel is empty and tts_tx is dropped
WorkerExit(r) ==
    /\ worker[r] = "recv"
    /\ tts_chan[r] = <<>>
    /\ tts_closed[r]
    /\ worker' = [worker EXCEPT ![r] = "done"]
    /\ UNCHANGED <<pc, permits, semQueue, mutexOwner, poisoned, task, llm,
                   genIdx, sentence_buffer, tts_chan, tts_closed, curChunk,
                   event_chan, delivered, connected, thinkResult, dispatched,
                   history, emotional_context, system_prompt_tokens,
                   aira_emotion>>
    /\ UNCHANGED <<script, synthLog, harnessVars>>

----------------------------------------------------------------------------
(* the client and the camera endpoint *)

\* the client reads the next event of the response stream
ClientRecv(r) ==
    /\ pc[r] \in {"returned", "rejected"}
    /\ connected[r]
    /\ event_chan[r] # <<>>
    /\ delivered' = [delivered EXCEPT ![r] =
                        Append(@, event_chan[r][ChanRecvIndex(event_chan[r])])]
    /\ event_chan' = [event_chan EXCEPT ![r] = RemoveAt(@, ChanRecvIndex(@))]
    /\ UNCHANGED <<pc, permits, semQueue, mutexOwner, poisoned, task, llm,
                   worker, genIdx, sentence_buffer, tts_chan, tts_closed,
                   curChunk, connected, thinkResult, dispatched, history,
                   emotional_context, system_prompt_tokens, aira_emotion>>
    /\ UNCHANGED <<script, synthLog, harnessVars>>

\* the client goes away: the receiver and the events still queued are dropped
ClientDisconnect(r) ==
    /\ pc[r] \in {"returned", "rejected"}
    /\ connected[r]
    /\ ~StreamClosed(r)
    /\ connected' = [connected EXCEPT ![r] = FALSE]
    /\ event_chan' = [event_chan EXCEPT ![r] = <<>>]
    /\ UNCHANGED <<pc, permits, semQueue, mutexOwner, poisoned, task, llm,
                   worker, genIdx, sentence_buffer, tts_chan, tts_closed,
                   curChunk, delivered, thinkResult, dispatched, history,
                   emotional_context, system_prompt_tokens, aira_emotion>>
    /\ UNCHANGED <<script, synthLog, harnessVars>>

\* process_camera_features commits a changed context:
\* aira_state.lock().unwrap() and Aira::update_emotional_context
ProcessCameraFeatures(ctx) ==
    /\ MutexFree(mutexOwner)
    /\ ~poisoned
    /\ aira_emotion # ctx
    /\ aira_emotion' = ctx
    /\ UNCHANGED <<pc, permits, semQueue, mutexOwner, poisoned, task, llm,
                   worker, genIdx, sentence_buffer, tts_chan, tts_closed,
                   curChunk, event_chan, delivered, connected, thinkResult,
                   dispatched, history, emotional_context, system_prompt_tokens>>
    /\ UNCHANGED <<script, synthLog, harnessVars>>

----------------------------------------------------------------------------
(* The chat service *)

Next ==
    \/ \E r \in Requests : Arrive(r)
    \/ \E r \in Requests : Timeout(r)
    \/ \E r \in Requests : Spawn(r)
    \/ \E r \in Requests : Return(r)
    \/ \E r \in Requests : TaskStart(r)
    \/ \E r \in Requests : TaskAfterLlm(r)
    \/ \E r \in Requests : TaskJoin(r)
    \/ \E r \in Requests : TaskJoinTimeout(r)
    \/ \E r \in Requests : LlmStart(r)
    \/ \E r \in Requests : LlmAskErr(r)
    \/ \E r \in Requests : LlmPanic(r)
    \/ \E r \in Requests : LlmFragment(r)
    \/ \E r \in Requests : LlmDispatch(r)
    \/ \E r \in Requests : LlmFinish(r)
    \/ \E r \in Requests : LlmTps(r)
    \/ \E r \in Requests : LlmFlush(r)
    \/ \E r \in Requests : WorkerRecv(r)
    \/ \E r \in Requests, o \in SynthOutcomes : WorkerSynth(r, o)
    \/ \E r \in Requests : WorkerExit(r)
    \/ \E r \in Requests : ClientRecv(r)
    \/ \E r \in Requests : ClientDisconnect(r)
    \/ \E ctx \in EmotionChoices : ProcessCameraFeatures(ctx)

Spec == Init /\ [][Next]_vars

----------------------------------------------------------------------------
(* One turn at a time: a single client, any of the sample outputs *)

TurnScripts == {ScriptHello, ScriptBold}

InitTurn ==
    /\ ChatInit
    /\ CamIdle
    /\ MoreIdle
    /\ pc = [r \in Requests |-> IF r = 1 THEN "idle" ELSE "absent"]
    /\ script \in [Requests -> TurnScripts]
    /\ \A r \in Requests : r # 1 => script[r] = ScriptHello
    /\ history = <<>>
    /\ emotional_context = NoContext
    /\ system_prompt_tokens = DefaultSystemPromptLen \div CHARS_PER_TOKEN
    /\ pruneStage = "off"
    /\ histBefore = <<>>
    /\ new_message_tokens = 0

\* with a single client the permit is always free on arrival
NextTurn ==
    \/ \E r \in Requests : Arrive(r)
    \/ \E r \in Requests : Spawn(r)
    \/ \E r \in Requests : Return(r)
    \/ \E r \in Requests : TaskStart(r)
    \/ \E r \in Requests : TaskAfterLlm(r)
    \/ \E r \in Requests : TaskJoin(r)
    \/ \E r \in Requests : TaskJoinTimeout(r)
    \/ \E r \in Requests : LlmStart(r)
    \/ \E r \in Requests : LlmAskErr(r)
    \/ \E r \in Requests : LlmPanic(r)
    \/ \E r \in Requests : LlmFragment(r)
    \/ \E r \in Requests : LlmDispatch(r)
    \/ \E r \in Requests : LlmFinish(r)
    \/ \E r \in Requests : LlmTps(r)
    \/ \E r \in Requests : LlmFlush(r)
    \/ \E r \in Requests : WorkerRecv(r)
    \/ \E r \in Requests, o \in SynthOutcomes : WorkerSynth(r, o)
    \/ \E r \in Requests : WorkerExit(r)
    \/ \E r \in Requests : ClientRecv(r)
    \/ \E r \in Requests : ClientDisconnect(r)
    \/ \E ctx \in EmotionChoices : ProcessCameraFeatures(ctx)

SpecTurn == InitTurn /\ [][NextTurn]_vars

----------------------------------------------------------------------------
(* prune_history_to_fit on its own: histories, prompts and messages drawn  *)
(* from small sets, then one call                                          *)

TokenChoices == {10, 100, 616, 800}
SystemTokenChoices == {19, 20}
NewMessageTokenChoices == {10, 50, 1500}
TurnNames == <<"t1", "t2", "t3", "t4", "t5", "t6", "t7", "t8">>

HistoryOf(counts) ==
    [i \in 1..Len(counts) |->
        Turn(IF i % 2 = 1 THEN "user" ELSE "assistant", <<TurnNames[i]>>, counts[i])]

HistoryChoices ==
    UNION {{HistoryOf(c) : c \in [1..n -> TokenChoices]} : n \in 0..MaxHist}

InitPrune ==
    /\ ChatInit
    /\ CamIdle
    /\ MoreIdle
    /\ pc = [r \in Requests |-> "absent"]
    /\ script = [r \in Requests |-> ScriptHello]
    /\ history \in HistoryChoices
    /\ histBefore = history
    /\ emotional_context \in {NoContext} \cup EmotionChoices
    /\ system_prompt_tokens \in SystemTokenChoices
    /\ new_message_tokens \in NewMessageTokenChoices
    /\ pruneStage = "input"

PruneCall ==
    /\ pruneStage = "input"
    /\ history' = prune_history_to_fit(history, system_prompt_tokens,
                                       emotional_context, new_message_tokens)
    /\ pruneStage' = "pruned"
    /\ UNCHANGED <<chatVars, script, emotional_context, system_prompt_tokens,
                   histBefore, new_message_tokens, camVars, smVars, moreVars>>

NextPrune == PruneCall

SpecPrune == InitPrune /\ [][NextPrune]_vars

Available == available_tokens(system_prompt_tokens, emotional_context,
                              new_message_tokens)

Suffix(h, k) == SubSeq(h, k + 1, Len(h))

\* the longest suffix of h whose token sum is at most avail
LongestFittingSuffix(h, avail) ==
    LET fits == {k \in 0..Len(h) : SumTokens(Suffix(h, k)) <= avail}
        k == CHOOSE m \in fits : \A n \in fits : m <= n
    IN  Suffix(h, k)

----------------------------------------------------------------------------
(* Claims *)

InGeneration(r) == llm[r] \in {"gen", "dispatch"}

\* C1: with a permit pool of size 1, no two requests are ever inside the
\* LanguageModel call (guard.think) at the same time, in any interleaving.
C1_NoOverlappingGeneration ==
    \A r1, r2 \in Requests :
        r1 # r2 => ~(InGeneration(r1) /\ InGeneration(r2))

\* a second turn's closure waits for the lock while the first generates
C1_Witness ==
    \E r1, r2 \in Requests :
        r1 # r2 /\ InGeneration(r1) /\ llm[r2] = "start"

Admitted(r) == pc[r] \in {"admitted", "spawned", "returned"}

GenerationFinished(r) ==
    llm[r] \in {"tps", "flush", "done", "panicked"} \/ task[r] \in {"panicked", "done"}

\* C2: the permit is held for as long as a turn is active: while an admitted
\* turn's generation has not finished, no second request is admitted.
C2_PermitHeldForTurn ==
    \A r1, r2 \in Requests :
        r1 # r2 =>
            ~(/\ Admitted(r1) /\ ~GenerationFinished(r1)
              /\ Admitted(r2) /\ ~GenerationFinished(r2))

RejectedClean(r) ==
    /\ task[r] = "none" /\ llm[r] = "none" /\ worker[r] = "none"
    /\ genIdx[r] = 0 /\ dispatched[r] = <<>> /\ thinkResult[r] = "none"
    /\ ~SendersAlive(r)
    /\ connected[r] =>
        delivered[r] \o event_chan[r] =
            <<ErrorEvent("Server is busy, please try again")>>

\* C3: a request that times out waiting for the permit gets a stream of
\* exactly one error (busy) event that then ends, no engine is called for it,
\* and the step leaves history and emotion state unchanged.
C3_TimeoutRejection ==
    /\ [](\A r \in Requests : pc[r] = "rejected" => RejectedClean(r))
    /\ [][\A r \in Requests :
            (pc[r] = "waiting" /\ pc'[r] = "rejected") =>
                UNCHANGED <<history, emotional_context, aira_emotion>>]_vars

\* a rejected request whose client has read the busy event to the end
C3_Witness ==
    \E r \in Requests :
        /\ pc[r] = "rejected"
        /\ connected[r]
        /\ Len(delivered[r]) = 1
        /\ StreamClosed(r)
        /\ history # <<>>

\* C4: after prune_history_to_fit, history tokens + system prompt tokens +
\* emotion overhead + new message tokens + 50 <= max_context_tokens.
C4_BudgetInvariant ==
    pruneStage = "pruned" =>
        SumTokens(history) + system_prompt_tokens
            + EmotionOverhead(emotional_context) + new_message_tokens
            + SAFETY_BUFFER <= max_context_tokens

\* C5: when the whole history fits into the available tokens, pruning drops
\* no turn.
C5_NoDropWhenFits ==
    (pruneStage = "pruned" /\ SumTokens(histBefore) <= Available) =>
        history = histBefore

\* C6: when the whole history does not fit, pruning keeps exactly the longest
\* suffix whose token sum is <= available (an exact fit is kept), whole turns
\* only.
C6_LongestSuffixKept ==
    (pruneStage = "pruned" /\ SumTokens(histBefore) > Available) =>
        history = LongestFittingSuffix(histBefore, Available)

\* an over-full history of which a suffix fits exactly
C6_Witness ==
    /\ pruneStage = "pruned"
    /\ SumTokens(histBefore) > Available
    /\ history # <<>>
    /\ SumTokens(history) = Available

TextData(q) ==
    LET texts == SelectSeq(q, LAMBDA e : e.kind = "text")
    IN  [i \in 1..Len(texts) |-> texts[i].data]

\* the sanitized fragments in generation order
Generated(r) == [i \in 1..genIdx[r] |-> clean_llm_output(script[r][i])]

IsPrefix(s, t) == Len(s) <= Len(t) /\ s = SubSeq(t, 1, Len(s))

\* C7: while the client is connected, the text events it receives are the
\* generated fragments in generation order: nothing reordered, duplicated or
\* left out.
C7_TextOrder ==
    \A r \in Requests :
        connected[r] =>
            /\ IsPrefix(TextData(delivered[r]), Generated(r))
            /\ TextData(delivered[r] \o event_chan[r]) = Generated(r)

\* a finished turn whose client has read all four sanitized fragments
C7_Witness ==
    \E r \in Requests :
        /\ connected[r]
        /\ StreamClosed(r)
        /\ script[r] = ScriptBold
        /\ thinkResult[r] = "ok"
        /\ Len(TextData(delivered[r])) = Len(ScriptBold)

AudioChunks(q) ==
    LET audio == SelectSeq(q, LAMBDA e : e.kind = "audio_complete")
    IN  [i \in 1..Len(audio) |-> audio[i].chunk]

Increasing(s) == \A i, j \in 1..Len(s) : i < j => s[i] < s[j]

\* C8: audio_complete events are emitted in the order their chunks were
\* dispatched, whatever the synthesis of each chunk takes.
C8_AudioOrder ==
    \A r \in Requests :
        connected[r] => Increasing(AudioChunks(delivered[r] \o event_chan[r]))

\* two audio events have reached the client
C8_Witness ==
    \E r \in Requests : connected[r] /\ Len(AudioChunks(delivered[r])) >= 2

HelloDot == <<"H", "e", "l", "l", "o", ".", " ">>
World == <<"W", "o", "r", "l", "d">>

\* C9 as stated: for ["Hel","lo. ","Wor","ld"] a chunk "Hello. " is
\* dispatched upon the third fragment and a chunk "World" at the final flush.
C9_TwoChunks ==
    \A r \in Requests :
        script[r] = ScriptHello =>
            /\ (llm[r] = "gen" /\ genIdx[r] >= 3) => dispatched[r] = <<HelloDot>>
            /\ (llm[r] = "done" /\ thinkResult[r] = "ok") =>
                   dispatched[r] = <<HelloDot, World>>

\* C9 amended: for ["Hel","lo. ","Wor","ld"] nothing is dispatched while the
\* model generates, and the final flush dispatches the single chunk
\* "Hello. World".
C9_OneChunkAtFlush ==
    \A r \in Requests :
        script[r] = ScriptHello =>
            /\ llm[r] \in {"gen", "dispatch", "tps", "flush"} => dispatched[r] = <<>>
            /\ (llm[r] = "done" /\ thinkResult[r] = "ok") =>
                   dispatched[r] = <<HelloDot \o World>>

\* the Hello turn has generated all four fragments and flushed
C9_Witness ==
    \E r \in Requests :
        /\ script[r] = ScriptHello
        /\ llm[r] = "done"
        /\ thinkResult[r] = "ok"
        /\ genIdx[r] = 4

GenerationFailed(r) ==
    thinkResult[r] \in {"err", "panic", "poisoned"} \/ task[r] = "panicked"

\* C10: when the LanguageModel call returns an error, panics, or the lock is
\* found poisoned, the turn's stream carries an error event before it closes.
C10_FailureSurfaced ==
    \A r \in Requests :
        (connected[r] /\ GenerationFailed(r) /\ StreamClosed(r)) =>
            \E i \in 1..Len(delivered[r]) : delivered[r][i].kind = "error"

----------------------------------------------------------------------------
(* A long answer: more sentences than the TTS channel holds *)

ScriptDots == [i \in 1..(TTS_CHANNEL_CAPACITY + 1) |-> <<".">>]

InitStall ==
    /\ ChatInit
    /\ CamIdle
    /\ MoreIdle
    /\ pc = [r \in Requests |-> IF r = 1 THEN "idle" ELSE "absent"]
    /\ script = [r \in Requests |-> ScriptDots]
    /\ history = <<>>
    /\ emotional_context = NoContext
    /\ system_prompt_tokens = DefaultSystemPromptLen \div CHARS_PER_TOKEN
    /\ pruneStage = "off"
    /\ histBefore = <<>>
    /\ new_message_tokens = 0

\* a slow synthesizer: no synthesis completes while the answer is generated
NextStall ==
    \/ \E r \in Requests : Arrive(r)
    \/ \E r \in Requests : Spawn(r)
    \/ \E r \in Requests : Return(r)
    \/ \E r \in Requests : TaskStart(r)
    \/ \E r \in Requests : TaskAfterLlm(r)
    \/ \E r \in Requests : TaskJoin(r)
    \/ \E r \in Requests : TaskJoinTimeout(r)
    \/ \E r \in Requests : LlmStart(r)
    \/ \E r \in Requests : LlmAskErr(r)
    \/ \E r \in Requests : LlmPanic(r)
    \/ \E r \in Requests : LlmFragment(r)
    \/ \E r \in Requests : LlmDispatch(r)
    \/ \E r \in Requests : LlmFinish(r)
    \/ \E r \in Requests : LlmTps(r)
    \/ \E r \in Requests : LlmFlush(r)
    \/ \E r \in Requests : WorkerRecv(r)
    \/ \E r \in Requests : WorkerExit(r)
    \/ \E r \in Requests : ClientRecv(r)
    \/ \E r \in Requests : ClientDisconnect(r)
    \/ \E ctx \in EmotionChoices : ProcessCameraFeatures(ctx)

SpecStall == InitStall /\ [][NextStall]_vars

EventsOf(r) == delivered[r] \o event_chan[r]

\* C11: for every dispatched chunk whose synthesis or WAV encoding fails, the
\* worker emits a per-chunk error event (tts_error / audio_error) on the
\* turn's stream.
C11_FailureEventEmitted ==
    \A r \in Requests :
        connected[r] =>
            \A i \in 1..Len(synthLog[r]) :
                synthLog[r][i].outcome \in {"synth_err", "encode_err"} =>
                    \E k \in 1..Len(EventsOf(r)) :
                        /\ EventsOf(r)[k].kind \in {"tts_error", "audio_error"}
                        /\ EventsOf(r)[k].chunk = synthLog[r][i].idx

Logged(r) == {synthLog[r][i].idx : i \in 1..Len(synthLog[r])}
Queued(r) == {tts_chan[r][i].idx : i \in 1..Len(tts_chan[r])}
InSynthesis(r) == IF worker[r] = "synth" THEN {curChunk[r].idx} ELSE {}

\* C12: a synthesis or encoding failure or panic on one chunk ends neither
\* the worker nor the turn: every dispatched chunk is still synthesized, and
\* each one that succeeds produces its audio_complete event.
C12_WorkerSurvivesFailure ==
    \A r \in Requests :
        /\ worker[r] = "done" => Logged(r) = 1..Len(dispatched[r])
        /\ Logged(r) \cup InSynthesis(r) \cup Queued(r) = 1..Len(dispatched[r])
        /\ connected[r] =>
            \A i \in 1..Len(synthLog[r]) :
                synthLog[r][i].outcome = "ok" =>
                    \E k \in 1..Len(EventsOf(r)) :
                        /\ EventsOf(r)[k].kind = "audio_complete"
                        /\ EventsOf(r)[k].chunk = synthLog[r][i].idx

\* the first chunk's synthesis panicked, the second was synthesized and its
\* audio has reached the client
C12_Witness ==
    \E r \in Requests :
        /\ connected[r]
        /\ Len(synthLog[r]) = 2
        /\ synthLog[r][1].outcome = "panic"
        /\ synthLog[r][2].outcome = "ok"
        /\ \E k \in 1..Len(delivered[r]) :
               delivered[r][k].kind = "audio_complete" /\ delivered[r][k].chunk = 2

\* C13: once the wait for the worker is over (the worker finished or the
\* 15 s timeout fired), nothing keeps the outbound stream open.
C13_JoinBoundsStream ==
    \A r \in Requests : task[r] = "done" => ~SendersAlive(r)

\* C14: dispatching a chunk never blocks the generation loop, however many
\* chunks await synthesis.
C14_DispatchNeverBlocks ==
    \A r \in Requests : llm[r] = "dispatch" => ENABLED LlmDispatch(r)

\* C19: an emotion-ingestion request issued while another request is in its
\* generation stage completes without waiting for the generation to finish.
C19_EmotionNotBlockedByChat ==
    \A ctx \in EmotionChoices :
        ((\E r \in Requests : InGeneration(r)) /\ ~poisoned /\ aira_emotion # ctx)
            => ENABLED ProcessCameraFeatures(ctx)

\* C20: the emotional context of a turn's prompt is the one Aira holds when
\* the turn's generation starts, and it does not change while that
\* generation runs.
C20_PromptContextFixedAtStart ==
    [][\A r \in Requests :
          /\ (llm[r] = "start" /\ llm'[r] = "gen") =>
                emotional_context' = aira_emotion
          /\ (InGeneration(r) /\ llm'[r] \in {"gen", "dispatch"}) =>
                emotional_context' = emotional_context]_vars

\* a turn generates with a context committed after an earlier turn, which
\* ran without one
C20_Witness ==
    \E r, r0 \in Requests :
        /\ InGeneration(r)
        /\ emotional_context # NoContext
        /\ emotional_context = aira_emotion
        /\ llm[r0] = "done"
        /\ thinkResult[r0] = "ok"

----------------------------------------------------------------------------
(* EmotionStateMachine::update on its own: a machine as constructed, then  *)
(* any sequence of contexts with non-decreasing or repeated timestamps     *)

MaxSeconds == 4

FatigueChoices == {Frac(1, 2), Frac(75, 100), Frac(95, 100)}
StressChoices == {Frac(1, 2), Frac(65, 100)}
PositiveChoices == {Frac(1, 2), Frac(7, 10)}
EngagementChoices == {Frac(1, 10), Frac(1, 2)}
TimestampChoices == {ClockStart + d : d \in 0..MaxSeconds}

ContextChoices ==
    {EmotionalContext(f, e, st, p, t) :
        f \in FatigueChoices, e \in EngagementChoices, st \in StressChoices,
        p \in PositiveChoices, t \in TimestampChoices}

InitHysteresis ==
    /\ ChatInit
    /\ pc = [r \in Requests |-> "absent"]
    /\ script = [r \in Requests |-> ScriptShort]
    /\ history = <<>>
    /\ emotional_context = NoContext
    /\ system_prompt_tokens = DefaultSystemPromptLen \div CHARS_PER_TOKEN
    /\ pruneStage = "off"
    /\ histBefore = <<>>
    /\ new_message_tokens = 0
    /\ TrackerNew
    /\ free_frames = 0
    /\ lock_to = NoFeatures
    /\ MachineIdle
    /\ MoreIdle

MachineUpdate(c) ==
    /\ machine' = sm_update(machine, c)
    /\ machine_before' = machine
    /\ machine_input' = c
    /\ UNCHANGED <<chatVars, script, history, emotional_context,
                   system_prompt_tokens, pruneVars, camVars, moreVars>>

NextHysteresis == \E c \in ContextChoices : MachineUpdate(c)

SpecHysteresis == InitHysteresis /\ [][NextHysteresis]_vars

Elapsed == saturating_sub(machine_input.timestamp, machine_before.last_transition)

Candidate == determine_state(machine_input)

StrongSignal ==
    LET strength == CASE Candidate = "Fatigued" -> machine_input.fatigue
                      [] Candidate = "Stressed" -> machine_input.stress
                      [] Candidate = "Happy" -> machine_input.positive_affect
                      [] Candidate = "Engaged" -> machine_input.engagement
                      [] Candidate = "Disengaged" -> Unit - machine_input.engagement
                      [] OTHER -> Frac(1, 2)
    IN  strength > Frac(85, 100)

MachineUnchanged ==
    /\ machine.current_state = machine_before.current_state
    /\ machine.last_transition = machine_before.last_transition

\* C15: update with a context classified differently from current_state
\* changes state iff at least min_state_duration (3 s) have passed since
\* last_transition or the candidate's signal strength is > 0.85; otherwise
\* current_state and last_transition stay. From Neutral, fatigue 0.75 one
\* second after the last transition changes nothing, the same sample 3 s or
\* more after it gives Fatigued, and fatigue 0.95 gives Fatigued at once.
C15_Hysteresis ==
    machine_input # NoContext =>
        /\ Candidate # machine_before.current_state =>
              IF Elapsed >= 3 \/ StrongSignal
              THEN /\ machine.current_state = Candidate
                   /\ machine.last_transition = machine_input.timestamp
              ELSE MachineUnchanged
        /\ (/\ machine_before.current_state = "Neutral"
            /\ machine_input.fatigue = Frac(75, 100)
            /\ Elapsed = 1) => MachineUnchanged
        /\ (/\ machine_before.current_state = "Neutral"
            /\ machine_input.fatigue = Frac(75, 100)
            /\ Elapsed >= 3) => machine.current_state = "Fatigued"
        /\ (/\ machine_before.current_state = "Neutral"
            /\ machine_input.fatigue = Frac(95, 100)) =>
                machine.current_state = "Fatigued"

\* Neutral for one second, then a fatigue of 0.75: the machine stays Neutral
C15_Witness ==
    /\ machine_input # NoContext
    /\ machine_before.current_state = "Neutral"
    /\ machine_before.last_transition >= ClockStart
    /\ machine_input.fatigue = Frac(75, 100)
    /\ Elapsed = 1
    /\ Candidate = "Fatigued"
    /\ machine.current_state = "Neutral"

----------------------------------------------------------------------------
(* The camera endpoint on its own: a few frames of any kind, then one      *)
(* feature vector sent again and again, while the clock advances           *)

MaxFree == 2
MaxTicks == 2
RepeatLen == 15

NoFace == CameraFeatures(FALSE, 0, 0, 0, 0, 0, 0)
Attentive ==
    CameraFeatures(TRUE, Frac(95, 100), Frac(9, 10), 15, Frac(8, 10), 0, 0)
Tired ==
    CameraFeatures(TRUE, Frac(9, 10), Frac(2, 10), 45, Frac(1, 10), 20, 0)
\* values a client may send outside the documented ranges
OutOfRange == CameraFeatures(TRUE, 5 * Unit, 0 - 2 * Unit, 90, 3 * Unit, 0, 0)
\* 1e39 and -1e39 in the JSON body become +inf and -inf as f32
NonFinite == CameraFeatures(TRUE, Frac(9, 10), NegInf, 15, PosInf, 0, 0)

FeatureChoices == {NoFace, Attentive, Tired, OutOfRange, NonFinite}

InitCamera ==
    /\ ChatInit
    /\ pc = [r \in Requests |-> "absent"]
    /\ script = [r \in Requests |-> ScriptShort]
    /\ history = <<>>
    /\ emotional_context = NoContext
    /\ system_prompt_tokens = DefaultSystemPromptLen \div CHARS_PER_TOKEN
    /\ pruneStage = "off"
    /\ histBefore = <<>>
    /\ new_message_tokens = 0
    /\ TrackerNew
    /\ free_frames \in 0..MaxFree
    /\ lock_to \in FeatureChoices
    /\ MachineIdle
    /\ MoreIdle

\* the system clock advances by one second
Tick ==
    /\ now < ClockStart + MaxTicks
    /\ now' = now + 1
    /\ UNCHANGED <<chatVars, script, history, emotional_context,
                   system_prompt_tokens, pruneVars, smVars, moreVars, tracker,
                   smoothed_state, raw_state, frames, free_frames, lock_to,
                   repeats>>

\* process_camera_features with the Aira lock available: the raw context,
\* tracker.update under the tracker's lock and, for a committed change,
\* Aira::update_emotional_context
CameraFrame(features) ==
    /\ MutexFree(mutexOwner)
    /\ ~poisoned
    /\ IF frames < free_frames
       THEN frames' = frames + 1 /\ repeats' = repeats
       ELSE /\ features = lock_to
            /\ repeats < RepeatLen
            /\ repeats' = repeats + 1
            /\ frames' = frames
    /\ LET raw == calculate_emotional_state(features, now)
           result == tracker_update(tracker, raw)
       IN  /\ raw_state' = raw
           /\ tracker' = result.tracker
           /\ smoothed_state' = result.ret
           /\ aira_emotion' = IF result.ret # NoContext THEN result.ret
                              ELSE aira_emotion
    /\ UNCHANGED <<pc, permits, semQueue, mutexOwner, poisoned, task, llm,
                   worker, genIdx, sentence_buffer, tts_chan, tts_closed,
                   curChunk, event_chan, delivered, connected, thinkResult,
                   dispatched, synthLog>>
    /\ UNCHANGED <<script, history, emotional_context, system_prompt_tokens,
                   pruneVars, smVars, moreVars, now, free_frames, lock_to>>

emotion_label_engagement_first(state) ==
    IF FGt(state.fatigue, Frac(7, 10)) THEN "fatigued"
    ELSE IF FGt(state.stress, Frac(6, 10)) THEN "stressed"
    ELSE IF FGt(state.engagement, Frac(7, 10)) THEN "focused"
    ELSE IF FGt(state.positive_affect, Frac(6, 10)) THEN "happy"
    ELSE IF FLt(state.engagement, Frac(3, 10)) THEN "disengaged"
    ELSE "neutral"

\* the dominant label get_emotion_details derives from a context
emotion_label(state) ==
    IF FGt(state.fatigue, Frac(7, 10)) THEN "fatigued"
    ELSE IF FGt(state.stress, Frac(6, 10)) THEN "stressed"
    ELSE IF FGt(state.positive_affect, Frac(6, 10)) THEN "happy"
    ELSE IF FGt(state.engagement, Frac(7, 10)) THEN "focused"
    ELSE IF FLt(state.engagement, Frac(3, 10)) THEN "disengaged"
    ELSE "neutral"

EmotionDetailsResponse(dominant, details) ==
    [dominant_emotion |-> dominant, fatigue |-> details.fatigue,
     engagement |-> details.engagement, stress |-> details.stress,
     positive_affect |-> details.positive_affect,
     timestamp |-> details.timestamp, smoothed |-> TRUE]

\* the response get_emotion_details builds from Aira's stored context
emotion_details_of(context) ==
    IF context # NoContext
    THEN EmotionDetailsResponse(emotion_label(context), context)
    ELSE EmotionDetailsResponse("unknown", EmotionalContext(0, 0, 0, 0, 0))

\* get_emotion_details: under the Aira lock, answers from
\* Aira::get_emotional_context
GetEmotionDetails ==
    /\ MutexFree(mutexOwner)
    /\ ~poisoned
    /\ emotion_details' = emotion_details_of(aira_emotion)
    /\ UNCHANGED <<chatVars, script, history, emotional_context,
                   system_prompt_tokens, pruneVars, camVars, smVars,
                   promptVars, cleanVars, sttVars, ingestVars, classify_input, classified>>

NextCamera ==
    \/ Tick
    \/ \E features \in FeatureChoices : CameraFrame(features)

SpecCamera == InitCamera /\ [][NextCamera]_vars

FrameStep == frames' # frames \/ repeats' # repeats

\* the smoothed context of the frame just taken, from the state before it
SmoothedNext ==
    LET ema(m) == FAdd(FScale(raw_state'[m], 3, 10),
                       FScale(tracker.current[m], 7, 10))
    IN  EmotionalContext(ema("fatigue"), ema("engagement"), ema("stress"),
                         ema("positive_affect"), raw_state'.timestamp)

ChangedNext ==
    \E m \in Metrics :
        FGt(FAbs(FSub(SmoothedNext[m], tracker.current[m])), Frac(5, 100))

\* C16: update commits current = smoothed, records previous_raw = raw and
\* returns Some(smoothed) exactly when some smoothed metric differs from the
\* committed one by more than change_threshold; otherwise it returns None and
\* leaves current (metrics and timestamp) and previous_raw as they were.
C16_ChangeGating ==
    [][FrameStep =>
          IF ChangedNext
          THEN /\ tracker'.current = SmoothedNext
               /\ tracker'.previous_raw = raw_state'
               /\ smoothed_state' = SmoothedNext
          ELSE /\ smoothed_state' = NoContext
               /\ tracker'.current = tracker.current
               /\ tracker'.previous_raw = tracker.previous_raw]_vars

\* a frame that differs from the committed context was gated, after an
\* earlier one had been committed
C16_Witness ==
    /\ repeats >= 2
    /\ smoothed_state = NoContext
    /\ tracker.previous_raw # NoContext
    /\ tracker.current.timestamp < raw_state.timestamp
    /\ \E m \in Metrics : raw_state[m] # tracker.current[m]

AllFinite(c) == \A m \in Metrics : IsFinite(c[m])

\* C17: the same raw input fed 15 times brings every metric of the committed
\* context to within 1% (0.01) of the input's metric.
C17_EmaConvergence ==
    (repeats = RepeatLen /\ AllFinite(raw_state) /\ AllFinite(tracker.current)) =>
        \A m \in Metrics :
            100 * FAbs(tracker.current[m] - raw_state[m]) <= Unit

InUnitRange(c) ==
    c # NoContext =>
        \A m \in Metrics : IsFinite(c[m]) /\ 0 <= c[m] /\ c[m] <= Unit

\* C18: for any sequence of camera frames, out-of-range values and no-face
\* frames included, the metrics of the raw context, of the committed
\* context, of every value update returns and of the context stored for
\* prompt injection all lie in [0, 1].
C18_MetricsInUnitRange ==
    /\ InUnitRange(raw_state)
    /\ InUnitRange(tracker.current)
    /\ InUnitRange(smoothed_state)
    /\ InUnitRange(aira_emotion)

GenerationCompletes(r) == llm[r] = "gen" /\ llm'[r] = "tps"

\* C21: a turn whose generation completes appends exactly two turns to the
\* history, in this order: a user turn with the submitted message and an
\* assistant turn with all fragments of the turn concatenated in generation
\* order; each carries the token estimate of its own content, and no other
\* step adds a turn.
C21_TurnsRecorded ==
    [][/\ \A r \in Requests :
             GenerationCompletes(r) =>
                history' = history \o
                    << [role |-> "user", content |-> MessageOf(r),
                        token_count |-> (ByteLen(MessageOf(r)) \div 4) + 10],
                       [role |-> "assistant", content |-> Concat(script[r]),
                        token_count |-> (ByteLen(Concat(script[r])) \div 4) + 10] >>
       /\ Len(history') > Len(history) =>
             \E r \in Requests : GenerationCompletes(r)]_vars

\* the turn with the "**Hi! Ok." answer is on record, markup included
C21_Witness ==
    /\ Len(history) = 2
    /\ history[1].role = "user"
    /\ history[1].content = <<"h", "i">>
    /\ history[2].role = "assistant"
    /\ history[2].content = <<"*", "*", "H", "i", "!", " ", "O", "k", ".">>
    /\ history[2].token_count = 12

\* C22: once the client is gone every send is a no-op that blocks and aborts
\* nothing: generation goes on to its end, every dispatched chunk is still
\* synthesized, and the user and assistant turns are recorded.
C22_DisconnectHarmless ==
    \A r \in Requests :
        ~connected[r] =>
            /\ (llm[r] = "gen" /\ genIdx[r] < Len(script[r])) =>
                  ENABLED LlmFragment(r)
            /\ llm[r] = "tps" => ENABLED LlmTps(r)
            /\ worker[r] = "synth" => ENABLED WorkerSynth(r, "ok")
            /\ (llm[r] = "done" /\ thinkResult[r] = "ok") =>
                  /\ genIdx[r] = Len(script[r])
                  /\ Len(history) = 2
                  /\ history[1].content = MessageOf(r)
                  /\ history[2].content = Concat(script[r])
            /\ worker[r] = "done" => Logged(r) = 1..Len(dispatched[r])

\* the client left before it had all the text; the turn still finished, its
\* chunks were synthesized and its two turns recorded
C22_Witness ==
    \E r \in Requests :
        /\ ~connected[r]
        /\ Len(delivered[r]) < Len(script[r])
        /\ llm[r] = "done"
        /\ thinkResult[r] = "ok"
        /\ Len(history) = 2
        /\ worker[r] = "done"
        /\ Len(dispatched[r]) >= 2
        /\ \A i \in 1..Len(synthLog[r]) : synthLog[r][i].outcome = "ok"

----------------------------------------------------------------------------
(* LlmEngine::build_prompt_from_history and LlmEngine::clear_history on    *)
(* their own: history, emotional context and message drawn from small sets *)

IM_START == "<|im_start|>"
IM_END == "<|im_end|>"
SYSTEM_PROMPT == "You are Aira"
STATE_HEADER == "[User's Current State]"

\* Role::to_str
to_str(role) ==
    CASE role = "System" -> "system"
      [] role = "User" -> "user"
      [] role = "Assistant" -> "assistant"

\* the role tag of a stored turn
RoleOf(turn) == IF turn.role = "user" THEN "User" ELSE "Assistant"

\* the text of EmotionalContext::to_llm_context, by its variable parts
to_llm_context(c) ==
    <<"The user appears ", get_dominant_emotion(c),
      "Recommended approach: ", get_recommendations(c)>>

build_system_prompt_always(ctx) ==
    <<SYSTEM_PROMPT, "\n\n", STATE_HEADER, "\n">>
    \o (IF ctx # NoContext THEN to_llm_context(ctx) ELSE <<>>)

\* LlmEngine::build_system_prompt
build_system_prompt(ctx) ==
    IF ctx # NoContext
    THEN <<SYSTEM_PROMPT, "\n\n", STATE_HEADER, "\n">> \o to_llm_context(ctx)
    ELSE <<SYSTEM_PROMPT>>

\* format!("<|im_start|>{}\n{}\n<|im_end|>\n", role, content)
Section(role, content) ==
    <<IM_START, to_str(role), "\n">> \o content \o <<"\n", IM_END, "\n">>

RECURSIVE HistorySections(_)
HistorySections(h) ==
    IF h = <<>> THEN <<>>
    ELSE Section(RoleOf(Head(h)), Head(h).content) \o HistorySections(Tail(h))

\* LlmEngine::build_prompt_from_history
build_prompt_from_history(h, ctx, msg) ==
    Section("System", build_system_prompt(ctx))
    \o HistorySections(h)
    \o Section("User", msg)
    \o <<IM_START, to_str("Assistant"), "\n">>

clear_history_keep_first(h) == IF h = <<>> THEN <<>> ELSE <<Head(h)>>

\* LlmEngine::clear_history: self.history.clear()
clear_history(h) == <<>>

MessageChoices == {<<>>, <<"h", "i">>}

InitPrompt ==
    /\ ChatInit
    /\ CamIdle
    /\ CleanIdle /\ SttIdle /\ QueryIdle /\ IngestIdle
    /\ pc = [r \in Requests |-> "absent"]
    /\ script = [r \in Requests |-> ScriptHello]
    /\ history \in HistoryChoices
    /\ histBefore = history
    /\ emotional_context \in {NoContext} \cup EmotionChoices
    /\ system_prompt_tokens \in SystemTokenChoices
    /\ new_message_tokens = 0
    /\ pruneStage = "off"
    /\ promptStage = "input"
    /\ new_user_message \in MessageChoices
    /\ prompt = <<>>

BuildPrompt ==
    /\ promptStage \in {"input", "cleared"}
    /\ prompt' = build_prompt_from_history(history, emotional_context,
                                           new_user_message)
    /\ promptStage' = "built"
    /\ UNCHANGED <<chatVars, script, history, emotional_context,
                   system_prompt_tokens, pruneVars, camVars, smVars,
                   new_user_message, cleanVars, sttVars, ingestVars, queryVars>>

\* Aira::clear_history, which is LlmEngine::clear_history
ClearHistory ==
    /\ promptStage \in {"input", "built"}
    /\ history' = clear_history(history)
    /\ promptStage' = "cleared"
    /\ UNCHANGED <<chatVars, script, emotional_context, system_prompt_tokens,
                   pruneVars, camVars, smVars, new_user_message, prompt,
                   cleanVars, sttVars, ingestVars, queryVars>>

NextPrompt == BuildPrompt \/ ClearHistory

SpecPrompt == InitPrompt /\ [][NextPrompt]_vars

\* positions of the section markers of the built prompt, in order
RECURSIVE MarkersFrom(_, _, _)
MarkersFrom(p, marker, i) ==
    IF i > Len(p) THEN <<>>
    ELSE (IF p[i] = marker THEN <<i>> ELSE <<>>) \o MarkersFrom(p, marker, i + 1)

Starts == MarkersFrom(prompt, IM_START, 1)
Ends == MarkersFrom(prompt, IM_END, 1)

\* the role tag and the body of the k-th closed section
TagOf(k) == prompt[Starts[k] + 1]
BodyOf(k) == SubSeq(prompt, Starts[k] + 3, Ends[k] - 2)

ExpectedSystemBody ==
    IF emotional_context = NoContext THEN <<SYSTEM_PROMPT>>
    ELSE <<SYSTEM_PROMPT, "\n\n", STATE_HEADER, "\n", "The user appears ",
           get_dominant_emotion(emotional_context), "Recommended approach: ",
           get_recommendations(emotional_context)>>

\* C23: the built prompt is one system section (the system prompt, with the
\* "[User's Current State]" advisory exactly when an emotional context is
\* present), then every history turn in insertion order under its role, then
\* the new user turn, then an open assistant marker; an empty history or an
\* empty message leaves just the system section and the new turn.
C23_PromptLayout ==
    promptStage = "built" =>
        LET n == Len(history) IN
        /\ Len(Starts) = n + 3
        /\ Len(Ends) = n + 2
        /\ \A k \in 1..(n + 2) :
              /\ Starts[k] < Ends[k]
              /\ Ends[k] + 2 = Starts[k + 1]
        /\ Starts[1] = 1
        /\ TagOf(1) = "system"
        /\ BodyOf(1) = ExpectedSystemBody
        /\ (\E i \in 1..Len(prompt) : prompt[i] = STATE_HEADER)
              <=> emotional_context # NoContext
        /\ \A k \in 1..n :
              /\ TagOf(k + 1) = history[k].role
              /\ BodyOf(k + 1) = history[k].content
        /\ TagOf(n + 2) = "user"
        /\ BodyOf(n + 2) = new_user_message
        /\ SubSeq(prompt, Starts[n + 3], Len(prompt))
              = <<IM_START, "assistant", "\n">>

C23_Witness ==
    /\ promptStage = "built"
    /\ Len(history) = MaxHist
    /\ emotional_context # NoContext
    /\ new_user_message = <<>>
    /\ Len(Starts) = MaxHist + 3

\* C23, second case: with an empty history and an empty message
C23_EmptyWitness ==
    /\ promptStage = "built"
    /\ history = <<>>
    /\ new_user_message = <<>>
    /\ emotional_context = NoContext
    /\ prompt = <<IM_START, "system", "\n", SYSTEM_PROMPT, "\n", IM_END, "\n",
                  IM_START, "user", "\n", "\n", IM_END, "\n",
                  IM_START, "assistant", "\n">>

\* C25: clear_history leaves no turn (length and token total 0) and changes
\* neither the system prompt's token count nor the emotional context.
C25_ClearHistory ==
    [][promptStage' = "cleared" =>
          /\ Len(history') = 0
          /\ total_history_tokens(history') = 0
          /\ UNCHANGED <<system_prompt_tokens, emotional_context,
                         aira_emotion>>]_vars

C25_Witness ==
    /\ promptStage = "cleared"
    /\ Len(histBefore) = MaxHist
    /\ history = <<>>
    /\ emotional_context # NoContext

----------------------------------------------------------------------------
(* clean_llm_output on its own: every text over a small alphabet, cleaned  *)
(* once and then once more                                                 *)

MaxText == 4

TextAlphabet == {"*", "_", " ", "\n", "a", "1", Bullet}
Alphanumeric == {"a", "1"}

TextChoices == UNION {[1..n -> TextAlphabet] : n \in 0..MaxText}

InitClean ==
    /\ ChatInit
    /\ CamIdle
    /\ PromptIdle /\ SttIdle /\ QueryIdle /\ IngestIdle
    /\ pc = [r \in Requests |-> "absent"]
    /\ script = [r \in Requests |-> ScriptHello]
    /\ history = <<>>
    /\ histBefore = <<>>
    /\ emotional_context = NoContext
    /\ system_prompt_tokens = DefaultSystemPromptLen \div CHARS_PER_TOKEN
    /\ new_message_tokens = 0
    /\ pruneStage = "off"
    /\ cleanStage = "input"
    /\ clean_text \in TextChoices
    /\ cleaned = <<>>
    /\ recleaned = <<>>

Clean ==
    /\ cleanStage = "input"
    /\ cleaned' = clean_llm_output(clean_text)
    /\ cleanStage' = "once"
    /\ UNCHANGED <<chatVars, script, history, emotional_context,
                   system_prompt_tokens, pruneVars, camVars, smVars,
                   promptVars, sttVars, ingestVars, queryVars, clean_text, recleaned>>

Reclean ==
    /\ cleanStage = "once"
    /\ recleaned' = clean_llm_output(cleaned)
    /\ cleanStage' = "twice"
    /\ UNCHANGED <<chatVars, script, history, emotional_context,
                   system_prompt_tokens, pruneVars, camVars, smVars,
                   promptVars, sttVars, ingestVars, queryVars, clean_text, cleaned>>

NextClean == Clean \/ Reclean

SpecClean == InitClean /\ [][NextClean]_vars

AlphanumericsOf(s) == SelectSeq(s, LAMBDA c : c \in Alphanumeric)

\* C24: sanitizing is idempotent, clean(clean(t)) = clean(t), and keeps the
\* alphanumeric characters of t, in order.
C24_CleanIdempotent ==
    /\ cleanStage \in {"once", "twice"} =>
          AlphanumericsOf(cleaned) = AlphanumericsOf(clean_text)
    /\ cleanStage = "twice" => recleaned = cleaned

C24_Witness ==
    /\ cleanStage = "twice"
    /\ clean_text = <<"*", "_", "a", "*">>
    /\ cleaned = <<Bullet, "a">>
    /\ recleaned = <<Bullet, "a">>

----------------------------------------------------------------------------
(* The emotion query *)

\* up to MaxFree arbitrary frames and clock ticks, queried at any point
InitQuery ==
    /\ ChatInit
    /\ pc = [r \in Requests |-> "absent"]
    /\ script = [r \in Requests |-> ScriptShort]
    /\ history = <<>>
    /\ emotional_context = NoContext
    /\ system_prompt_tokens = DefaultSystemPromptLen \div CHARS_PER_TOKEN
    /\ pruneStage = "off"
    /\ histBefore = <<>>
    /\ new_message_tokens = 0
    /\ TrackerNew
    /\ free_frames \in 0..MaxFree
    /\ lock_to = NoFeatures
    /\ MachineIdle
    /\ MoreIdle

NextQuery ==
    \/ Tick
    \/ \E features \in FeatureChoices : CameraFrame(features)
    \/ GetEmotionDetails

SpecQuery == InitQuery /\ [][NextQuery]_vars

ReturnedMetrics(resp) ==
    EmotionalContext(resp.fatigue, resp.engagement, resp.stress,
                     resp.positive_affect, resp.timestamp)

\* C26: whenever the emotion query answers, the metrics it returns are the
\* tracker's current smoothed context and the label is the classification of
\* those returned metrics, also before the first frame and after gated frames.
C26_QueryReturnsCurrent ==
    [][emotion_details' # emotion_details =>
          /\ ReturnedMetrics(emotion_details') = tracker'.current
          /\ emotion_details'.dominant_emotion
                = emotion_label(ReturnedMetrics(emotion_details'))]_vars

----------------------------------------------------------------------------
(* decode_with_ffmpeg: NumStt transcriptions of non-WAV audio, each writing *)
(* its input file, running ffmpeg and cleaning up                          *)

MaxStamp == 2

\* SystemTime::now() in milliseconds, as the requests may read it
Stamps == 1..MaxStamp

input_path(timestamp) == <<"/tmp/stt_input_", timestamp, ".webm">>
output_path(timestamp) == <<"/tmp/stt_output_", timestamp, ".wav">>

\* what Command::output() gives: the tool cannot be started, or it exits with
\* success or with failure, and on failure it may have created its output
FfmpegOutcomes == {"spawn_err", "success", "failure", "failure_with_output"}

InitTranscode ==
    /\ ChatInit
    /\ CamIdle
    /\ PromptIdle /\ CleanIdle /\ QueryIdle /\ IngestIdle
    /\ pc = [r \in Requests |-> "absent"]
    /\ script = [r \in Requests |-> ScriptHello]
    /\ history = <<>>
    /\ histBefore = <<>>
    /\ emotional_context = NoContext
    /\ system_prompt_tokens = DefaultSystemPromptLen \div CHARS_PER_TOKEN
    /\ new_message_tokens = 0
    /\ pruneStage = "off"
    /\ SttIdle

SttFrame == <<chatVars, script, history, emotional_context,
              system_prompt_tokens, pruneVars, camVars, smVars, promptVars,
              cleanVars, queryVars, ingestVars>>

\* the timestamp is taken and std::fs::write(&input_path, audio_data)? runs
SttWriteInput(q, timestamp, written) ==
    /\ stt_pc[q] = "absent"
    /\ stt_stamp' = [stt_stamp EXCEPT ![q] = timestamp]
    /\ IF written
       THEN /\ temp_files' = temp_files \cup {input_path(timestamp)}
            /\ stt_pc' = [stt_pc EXCEPT ![q] = "written"]
       ELSE /\ temp_files' = temp_files
            /\ stt_pc' = [stt_pc EXCEPT ![q] = "returned"]
    /\ UNCHANGED SttFrame

\* Command::new("ffmpeg") ... .output()
SttFfmpeg(q, outcome) ==
    /\ stt_pc[q] = "written"
    /\ outcome = "success" => input_path(stt_stamp[q]) \in temp_files
    /\ temp_files' = IF outcome \in {"success", "failure_with_output"}
                     THEN temp_files \cup {output_path(stt_stamp[q])}
                     ELSE temp_files
    /\ stt_pc' = [stt_pc EXCEPT ![q] =
                     CASE outcome = "spawn_err" -> "spawn_err"
                       [] outcome = "success" -> "exited_ok"
                       [] OTHER -> "exited_fail"]
    /\ UNCHANGED <<stt_stamp, SttFrame>>

\* the files left by the match on the tool's result
after_match(files, timestamp, arm, readable) ==
    IF arm = "exited_ok" /\ readable
    THEN files \ {input_path(timestamp), output_path(timestamp)}
    ELSE files \ {input_path(timestamp)}

\* the match arms: remove the input file, and after a successful conversion
\* read the output file (returning early if that fails), remove it and decode
SttMatch(q, readable) ==
    /\ stt_pc[q] \in {"spawn_err", "exited_ok", "exited_fail"}
    /\ readable => output_path(stt_stamp[q]) \in temp_files
    /\ temp_files' = after_match(temp_files, stt_stamp[q], stt_pc[q], readable)
    /\ stt_pc' = [stt_pc EXCEPT ![q] = "returned"]
    /\ UNCHANGED <<stt_stamp, SttFrame>>

NextTranscode ==
    \E q \in SttRequests :
        \/ \E timestamp \in Stamps, written \in BOOLEAN :
               SttWriteInput(q, timestamp, written)
        \/ \E outcome \in FfmpegOutcomes : SttFfmpeg(q, outcome)
        \/ \E readable \in BOOLEAN : SttMatch(q, readable)

SpecTranscode == InitTranscode /\ [][NextTranscode]_vars

\* another transcription that took the same timestamp is still running
SharedStamp(q) ==
    \E o \in SttRequests \ {q} :
        /\ stt_stamp[o] = stt_stamp[q]
        /\ stt_pc[o] \notin {"absent", "returned"}

\* C27: once a transcoding attempt has returned, on whichever path, neither
\* its temporary input file nor its temporary output file exists.
C27_TempFilesRemoved ==
    \A q \in SttRequests :
        (stt_pc[q] = "returned" /\ ~SharedStamp(q)) =>
            /\ input_path(stt_stamp[q]) \notin temp_files
            /\ output_path(stt_stamp[q]) \notin temp_files

----------------------------------------------------------------------------
(* The end of a turn: final flush and metrics event *)

TpsPositions(r) == {i \in 1..Len(EventsOf(r)) : EventsOf(r)[i].kind = "tps"}
TextPositions(r) == {i \in 1..Len(EventsOf(r)) : EventsOf(r)[i].kind = "text"}

\* C28: when the tps event has been emitted the remaining non-empty sentence
\* buffer has already been dispatched as the final chunk; a turn emits at
\* most one tps event, exactly one once it has generated successfully with
\* the client connected, and no text event follows it.
C28_FlushBeforeTps ==
    \A r \in Requests :
        /\ TpsPositions(r) # {} => TrimIsEmpty(sentence_buffer[r])
        /\ Cardinality(TpsPositions(r)) <= 1
        /\ (llm[r] = "done" /\ thinkResult[r] = "ok" /\ connected[r]) =>
              Cardinality(TpsPositions(r)) = 1
        /\ \A i \in TpsPositions(r), j \in TextPositions(r) : j < i

----------------------------------------------------------------------------
(* One turn over fragment sequences that reach the length threshold *)

Repeat(piece, n) ==
    [i \in 1..(n * Len(piece)) |-> piece[((i - 1) % Len(piece)) + 1]]

\* eight fragments of 19 spaces (152 in all), then text
ScriptSpaces ==
    [i \in 1..8 |-> Repeat(<<" ">>, 19)] \o << <<"a">>, <<"b", ".">> >>
\* list markers: four fragments of nine (144 bytes once cleaned), then two
\* fragments of one (148 and 152 bytes), then text
ScriptBullets ==
    [i \in 1..4 |-> Repeat(<<"*", " ">>, 9)]
    \o << <<"*", " ">>, <<"*", " ">>, <<"a">> >>
\* ten fragments of 15 letters (150 in all), then one letter more
ScriptLong ==
    [i \in 1..10 |-> Repeat(<<"a">>, 15)] \o << <<"a">>, <<"b">> >>

\* a sentence, then whitespace only
ScriptTrail == << <<"H", "i", ".">>, <<" ">>, <<"\n">> >>

SegmentScripts ==
    {ScriptHello, ScriptSpaces, ScriptBullets, ScriptLong, ScriptTrail}

InitSegment ==
    /\ ChatInit
    /\ CamIdle
    /\ MoreIdle
    /\ pc = [r \in Requests |-> IF r = 1 THEN "idle" ELSE "absent"]
    /\ script \in [Requests -> SegmentScripts]
    /\ \A r \in Requests : r # 1 => script[r] = ScriptHello
    /\ history = <<>>
    /\ emotional_context = NoContext
    /\ system_prompt_tokens = DefaultSystemPromptLen \div CHARS_PER_TOKEN
    /\ pruneStage = "off"
    /\ histBefore = <<>>
    /\ new_message_tokens = 0

\* a turn that generates to its end or panics, with a synthesizer that succeeds
NextSegment ==
    \/ \E r \in Requests : Arrive(r)
    \/ \E r \in Requests : Spawn(r)
    \/ \E r \in Requests : Return(r)
    \/ \E r \in Requests : TaskStart(r)
    \/ \E r \in Requests : TaskAfterLlm(r)
    \/ \E r \in Requests : TaskJoin(r)
    \/ \E r \in Requests : LlmStart(r)
    \/ \E r \in Requests : LlmPanic(r)
    \/ \E r \in Requests : LlmFragment(r)
    \/ \E r \in Requests : LlmDispatch(r)
    \/ \E r \in Requests : LlmFinish(r)
    \/ \E r \in Requests : LlmTps(r)
    \/ \E r \in Requests : LlmFlush(r)
    \/ \E r \in Requests : WorkerRecv(r)
    \/ \E r \in Requests : WorkerSynth(r, "ok")
    \/ \E r \in Requests : WorkerExit(r)
    \/ \E r \in Requests : ClientRecv(r)

SpecSegment == InitSegment /\ [][NextSegment]_vars

EndsSentence(buf) == buf # <<>> /\ buf[Len(buf)] \in {".", "?", "!"}

\* longer than 150 characters
OverChars(buf) == Len(buf) > 150

\* longer than 150 bytes of UTF-8: the bullet character takes three
OverBytes(buf) == Len(buf) + 2 * Len(SelectSeq(buf, LAMBDA c : c = Bullet)) > 150

Blank(buf) == \A i \in 1..Len(buf) : buf[i] \in {" ", "\n", "\t"}

\* the steps of a turn's callback under a given dispatch condition: a fragment
\* is appended and the buffer is due for dispatch exactly under the condition;
\* a due buffer is dispatched whole and cleared; otherwise nothing is
\* dispatched and the buffer only grows
SegmentationRule(Due(_)) ==
    \A r \in Requests :
        /\ genIdx'[r] # genIdx[r] =>
              LET buf == sentence_buffer[r]
                           \o clean_llm_output(script[r][genIdx'[r]])
              IN  /\ sentence_buffer'[r] = buf
                  /\ dispatched'[r] = dispatched[r]
                  /\ llm'[r] = "dispatch" <=> Due(buf)
        /\ (llm[r] = "dispatch" /\ llm'[r] # "dispatch") =>
              /\ dispatched'[r] = Append(dispatched[r], sentence_buffer[r])
              /\ sentence_buffer'[r] = <<>>
        /\ (llm[r] = "gen" /\ llm'[r] = "gen") =>
              /\ dispatched'[r] = dispatched[r]
              /\ IsPrefix(sentence_buffer[r], sentence_buffer'[r])

DueAsStated(buf) == EndsSentence(buf) \/ OverChars(buf)

DueAmended(buf) == (EndsSentence(buf) \/ OverBytes(buf)) /\ ~Blank(buf)

\* C29 as stated: after a fragment is appended the buffer is dispatched as one
\* chunk and cleared if and only if it ends with '.', '?' or '!' or is longer
\* than 150 characters; otherwise nothing is dispatched and it keeps growing.
C29_Segmentation == [][SegmentationRule(DueAsStated)]_vars

\* C29 amended: the buffer is dispatched and cleared if and only if it ends
\* with '.', '?' or '!' or is longer than 150 bytes of UTF-8, and is not made
\* of whitespace only; otherwise nothing is dispatched and it keeps growing.
C29_SegmentationBytes == [][SegmentationRule(DueAmended)]_vars

\* 152 spaces were appended and not dispatched; the next fragment's buffer was
C29_Witness ==
    \E r \in Requests :
        /\ script[r] = ScriptSpaces
        /\ genIdx[r] = 9
        /\ llm[r] = "gen"
        /\ dispatched[r] = <<Repeat(<<" ">>, 8 * 19) \o <<"a">>>>

\* 38 bullets with their spaces, 76 characters in 152 bytes, were dispatched
C29_BulletWitness ==
    \E r \in Requests :
        /\ script[r] = ScriptBullets
        /\ dispatched[r] = <<Repeat(<<Bullet, " ">>, 38)>>

----------------------------------------------------------------------------
(* Synthesis calls in flight *)

\* the turns whose worker is inside tts.synthesize
Synthesizing == {r \in Requests : worker[r] = "synth"}

\* C30: at no time are two synthesize calls in flight, whatever the
\* interleaving of turns, also when a turn starts while the previous turn's
\* worker is still draining its chunks.
C30_SynthesisSerialized == Cardinality(Synthesizing) <= 1

----------------------------------------------------------------------------
(* The classifiers of a context side by side: determine_state, the         *)
(* advisory's dominant emotion and recommendation, the query's label       *)

\* metric values on, next to and away from the thresholds 0.3, 0.6 and 0.7
MetricChoices ==
    {0, Frac(29, 100), Frac(3, 10), Frac(6, 10), Frac(61, 100), Frac(7, 10),
     Frac(71, 100), Unit, NaN}

ClassifyChoices ==
    {EmotionalContext(f, e, s, p, ClockStart) :
        f \in MetricChoices, e \in MetricChoices,
        s \in MetricChoices, p \in MetricChoices}

InitClassify ==
    /\ ChatInit
    /\ CamIdle
    /\ PromptIdle /\ CleanIdle /\ SttIdle /\ IngestIdle
    /\ pc = [r \in Requests |-> "absent"]
    /\ script = [r \in Requests |-> ScriptHello]
    /\ history = <<>>
    /\ histBefore = <<>>
    /\ emotional_context = NoContext
    /\ system_prompt_tokens = DefaultSystemPromptLen \div CHARS_PER_TOKEN
    /\ new_message_tokens = 0
    /\ pruneStage = "off"
    /\ emotion_details = NoResponse
    /\ classify_input \in ClassifyChoices
    /\ classified = NoResponse

Classify ==
    /\ classified = NoResponse
    /\ classified' =
           [state |-> determine_state(classify_input),
            dominant |-> get_dominant_emotion(classify_input),
            recommendation |-> get_recommendations(classify_input),
            query |-> emotion_details_of(classify_input).dominant_emotion]
    /\ UNCHANGED <<chatVars, script, history, emotional_context,
                   system_prompt_tokens, pruneVars, camVars, smVars,
                   promptVars, cleanVars, sttVars, ingestVars, emotion_details,
                   classify_input>>

NextClassify == Classify

SpecClassify == InitClassify /\ [][NextClassify]_vars

Above(a, n, d) == a # NaN /\ a * d > n * Unit
Below(a, n, d) == a # NaN /\ a * d < n * Unit

\* the state the priority order gives the classified context
PriorityState ==
    LET c == classify_input
        fatigued == Above(c.fatigue, 7, 10)
        stressed == ~fatigued /\ Above(c.stress, 6, 10)
        happy == ~fatigued /\ ~stressed /\ Above(c.positive_affect, 6, 10)
        rest == ~fatigued /\ ~stressed /\ ~happy
    IN  CASE fatigued -> "Fatigued"
          [] stressed -> "Stressed"
          [] happy -> "Happy"
          [] rest /\ Above(c.engagement, 7, 10) -> "Engaged"
          [] rest /\ Below(c.engagement, 3, 10) -> "Disengaged"
          [] OTHER -> "Neutral"

AdvisoryLabel ==
    [Fatigued |-> "fatigued and low-energy", Stressed |-> "stressed or tense",
     Happy |-> "happy and positive", Engaged |-> "focused and engaged",
     Disengaged |-> "disengaged or distracted", Neutral |-> "neutral"]

QueryLabel ==
    [Fatigued |-> "fatigued", Stressed |-> "stressed", Happy |-> "happy",
     Engaged |-> "focused", Disengaged |-> "disengaged", Neutral |-> "neutral"]

\* C31: determine_state follows the priority order fatigue > 0.7, stress >
\* 0.6, positive affect > 0.6, engagement > 0.7, engagement < 0.3, else
\* neutral, and the advisory's dominant label and the query's label are that
\* same classification of the same metrics.
C31_OneClassification ==
    classified # NoResponse =>
        /\ classified.state = PriorityState
        /\ classified.dominant = AdvisoryLabel[classified.state]
        /\ classified.query = QueryLabel[classified.state]

\* happy wins over engaged: positive affect 0.61 with engagement 0.71
C31_Witness ==
    /\ classified # NoResponse
    /\ classify_input.positive_affect = Frac(61, 100)
    /\ classify_input.engagement = Frac(71, 100)
    /\ classify_input.fatigue = Frac(7, 10)
    /\ classify_input.stress = NaN
    /\ classified.state = "Happy"
    /\ classified.query = "happy"

Style ==
    [Fatigued |-> "supportive", Stressed |-> "calming",
     Happy |-> "match energy", Disengaged |-> "engaging",
     Engaged |-> "balanced", Neutral |-> "balanced"]

\* C38: the advisory's recommended style matches the dominant label of the
\* same context: fatigued - supportive, stressed - calming, happy - match
\* their energy, disengaged - engaging, focused or neutral - balanced.
C38_StyleMatchesLabel ==
    classified # NoResponse =>
        \A st \in EmotionStates :
            classified.dominant = AdvisoryLabel[st] =>
                classified.recommendation = Style[st]

----------------------------------------------------------------------------
(* Token amounts in the budget *)

\* C32: every token amount of the budget is estimate_tokens of its text: the
\* system prompt's amount is estimate_tokens(system_prompt) and every
\* recorded turn's token_count is estimate_tokens(content).
C32_OneEstimator ==
    /\ system_prompt_tokens = estimate_tokens(DefaultSystemPromptLen)
    /\ \A i \in 1..Len(history) :
          history[i].token_count = estimate_tokens(ByteLen(history[i].content))

----------------------------------------------------------------------------
(* Audio events of a turn *)

AudioPositions(q, idx) ==
    {k \in 1..Len(q) : q[k].kind = "audio_complete" /\ q[k].chunk = idx}

SucceededChunks(r) ==
    {synthLog[r][i].idx : i \in {j \in 1..Len(synthLog[r]) :
                                    synthLog[r][j].outcome = "ok"}}

\* C33: while the client stays connected, every dispatched chunk whose
\* synthesis and encoding succeeded has exactly one audio_complete event, no
\* other chunk has one, and when the stream closes every dispatched chunk has
\* been through synthesis and every such event has been delivered, also when
\* the join timeout fired before the worker was done.
C33_NoAudioLost ==
    \A r \in Requests :
        connected[r] =>
            /\ \A idx \in 1..Len(dispatched[r]) :
                  Cardinality(AudioPositions(EventsOf(r), idx))
                     = IF idx \in SucceededChunks(r) THEN 1 ELSE 0
            /\ StreamClosed(r) =>
                  /\ Logged(r) = 1..Len(dispatched[r])
                  /\ \A idx \in SucceededChunks(r) :
                        Cardinality(AudioPositions(delivered[r], idx)) = 1

\* the task has given up waiting while the worker still had a chunk to
\* synthesize, and the stream has since closed with both chunks' audio
C33_Witness ==
    \E r \in Requests :
        /\ connected[r]
        /\ StreamClosed(r)
        /\ SucceededChunks(r) = {1, 2}
        /\ AudioChunks(delivered[r]) = <<1, 2>>

\* the join timeout has fired with a chunk still queued for the worker
C33_TimeoutWitness ==
    \E r \in Requests :
        /\ connected[r]
        /\ task[r] = "done"
        /\ worker[r] = "synth"
        /\ tts_chan[r] # <<>>

----------------------------------------------------------------------------
(* Audio after its text *)

\* the number of fragments whose sanitized text makes up chunks 1..idx
FragmentsThrough(r, idx) ==
    LET spoken == Concat(SubSeq(dispatched[r], 1, idx))
        fits(n) == Concat(SubSeq(Generated(r), 1, n)) = spoken
    IN  CHOOSE n \in 0..genIdx[r] :
            fits(n) /\ \A m \in 0..genIdx[r] : fits(m) => n <= m

TextsBefore(q, k) == {j \in 1..(k - 1) : q[j].kind = "text"}

\* C34: in the order the client receives them, the audio_complete event of a
\* chunk comes after the text events of every fragment contained in that
\* chunk and in the chunks before it.
C34_AudioAfterText ==
    \A r \in Requests :
        connected[r] =>
            \A k \in 1..Len(EventsOf(r)) :
                EventsOf(r)[k].kind = "audio_complete" =>
                    /\ Cardinality(TextsBefore(EventsOf(r), k))
                          >= FragmentsThrough(r, EventsOf(r)[k].chunk)
                    /\ IsPrefix(SubSeq(Generated(r), 1,
                                       FragmentsThrough(r, EventsOf(r)[k].chunk)),
                                TextData(SubSeq(EventsOf(r), 1, k - 1)))

\* the audio of the second chunk of "**Hi", "!", " Ok", "." has been
\* delivered, after all four text events
C34_Witness ==
    \E r \in Requests :
        /\ connected[r]
        /\ script[r] = ScriptBold
        /\ \E k \in 1..Len(delivered[r]) :
              /\ delivered[r][k].kind = "audio_complete"
              /\ delivered[r][k].chunk = 2
              /\ Cardinality(TextsBefore(delivered[r], k)) = 4

----------------------------------------------------------------------------
(* What segmentation hands to the synthesizer *)

Spoken(r) == Concat(dispatched[r])
Sanitized(r) == Concat(Generated(r))

----------------------------------------------------------------------------
(* One turn over a conversation that already has history: LlmEngine::ask   *)
(* prunes first, then creates the session, ingests the prompt and starts   *)
(* the completion, each of which can fail                                  *)

AskHistories ==
    {<<>>, HistoryOf(<<10, 10>>), HistoryOf(<<616, 800>>),
     HistoryOf(<<800, 800, 10, 10>>)}

InitAsk ==
    /\ ChatInit
    /\ CamIdle
    /\ MoreIdle
    /\ pc = [r \in Requests |-> IF r = 1 THEN "idle" ELSE "absent"]
    /\ script \in [Requests -> {ScriptShort, ScriptHello}]
    /\ \A r \in Requests : r # 1 => script[r] = ScriptShort
    /\ history \in AskHistories
    /\ histBefore = history
    /\ emotional_context = NoContext
    /\ system_prompt_tokens = DefaultSystemPromptLen \div CHARS_PER_TOKEN
    /\ pruneStage = "off"
    /\ new_message_tokens = 0

NextAsk ==
    \/ NextSegment
    \/ \E r \in Requests : LlmAskErr(r)

SpecAsk == InitAsk /\ [][NextAsk]_vars

\* C36: when ask returns an error before any fragment was generated, the
\* history is the one the conversation had before the call: no turn was
\* added and none was removed.
C36_ErrorKeepsHistory ==
    \A r \in Requests : thinkResult[r] = "err" => history = histBefore


----------------------------------------------------------------------------
(* Concurrent emotion ingestion: process_camera_features takes the         *)
(* tracker's lock for tracker.update, releases it, and only then takes the *)
(* Aira lock to store the committed context                                *)

\* a face turned aside whose readings are close to the tracker's first values
Steady ==
    CameraFeatures(TRUE, Frac(7, 10), Frac(3, 10), 15, Frac(4, 10), 0, 25)

IngestFeatures == {NoFace, Tired, Steady}

InitIngest ==
    /\ ChatInit
    /\ CamIdle
    /\ PromptIdle /\ CleanIdle /\ SttIdle /\ QueryIdle
    /\ pc = [r \in Requests |-> "absent"]
    /\ script = [r \in Requests |-> ScriptShort]
    /\ history = <<>>
    /\ emotional_context = NoContext
    /\ system_prompt_tokens = DefaultSystemPromptLen \div CHARS_PER_TOKEN
    /\ pruneStage = "off"
    /\ histBefore = <<>>
    /\ new_message_tokens = 0
    /\ cam_pc = [c \in CamRequests |-> "idle"]
    /\ cam_smoothed = [c \in CamRequests |-> NoContext]

\* calculate_emotional_state, then tracker.update under STATE_TRACKER's lock
IngestUpdate(c, features) ==
    /\ cam_pc[c] = "idle"
    /\ LET raw == calculate_emotional_state(features, now)
           result == tracker_update(tracker, raw)
       IN  /\ raw_state' = raw
           /\ tracker' = result.tracker
           /\ smoothed_state' = result.ret
           /\ cam_smoothed' = [cam_smoothed EXCEPT ![c] = result.ret]
           /\ cam_pc' = [cam_pc EXCEPT ![c] =
                            IF result.ret # NoContext THEN "store" ELSE "read"]
    /\ UNCHANGED <<chatVars, script, history, emotional_context,
                   system_prompt_tokens, pruneVars, smVars, promptVars,
                   cleanVars, sttVars, queryVars, now, frames, free_frames,
                   lock_to, repeats>>

\* Some(smoothed): aira_state.lock().unwrap() and
\* Aira::update_emotional_context(smoothed)
IngestStore(c) ==
    /\ cam_pc[c] = "store"
    /\ MutexFree(mutexOwner)
    /\ ~poisoned
    /\ aira_emotion' = cam_smoothed[c]
    /\ cam_pc' = [cam_pc EXCEPT ![c] = "stored"]
    /\ UNCHANGED <<pc, permits, semQueue, mutexOwner, poisoned, task, llm,
                   worker, genIdx, sentence_buffer, tts_chan, tts_closed,
                   curChunk, event_chan, delivered, connected, thinkResult,
                   dispatched, synthLog>>
    /\ UNCHANGED <<script, history, emotional_context, system_prompt_tokens,
                   pruneVars, camVars, smVars, promptVars, cleanVars, sttVars,
                   queryVars, cam_smoothed>>

\* None: STATE_TRACKER.lock().unwrap().get_current() is the answer
IngestRead(c) ==
    /\ cam_pc[c] = "read"
    /\ cam_smoothed' = [cam_smoothed EXCEPT ![c] = tracker.current]
    /\ cam_pc' = [cam_pc EXCEPT ![c] = "unchanged"]
    /\ UNCHANGED <<chatVars, script, history, emotional_context,
                   system_prompt_tokens, pruneVars, camVars, smVars,
                   promptVars, cleanVars, sttVars, queryVars>>

NextIngest ==
    \/ Tick
    \/ \E c \in CamRequests, features \in IngestFeatures : IngestUpdate(c, features)
    \/ \E c \in CamRequests : IngestStore(c)
    \/ \E c \in CamRequests : IngestRead(c)

SpecIngest == InitIngest /\ [][NextIngest]_vars

IngestCompleted(c) == cam_pc[c] \in {"stored", "unchanged"}

\* C37: once every concurrent emotion-ingestion request has completed and
\* at least one of them committed an update, the context Aira holds for
\* prompt injection is the tracker's committed current context.
C37_AiraMatchesTracker ==
    (/\ \A c \in CamRequests : IngestCompleted(c)
     /\ \E c \in CamRequests : cam_pc[c] = "stored")
    => aira_emotion = tracker.current

----------------------------------------------------------------------------
(* The runtime's worker threads. Handlers, turn tasks, TTS workers and the *)
(* polling of a response stream run on the worker_threads = 2 threads of   *)
(* the tokio runtime; the LLM closure and each synthesis run on the        *)
(* blocking pool. std::sync::Mutex::lock parks the thread it is called on, *)
(* so an ingestion handler that finds the Aira lock held keeps one runtime *)
(* thread until the lock is released.                                      *)

WORKER_THREADS == 2

BlockedThreads == Cardinality({c \in CamRequests : cam_pc[c] = "locking"})

ThreadFree == BlockedThreads < WORKER_THREADS

\* a frame posted while a generation holds the Aira lock: the handler runs
\* tracker.update and, for a committed change, parks in aira_state.lock()
IngestPark(c, features) ==
    /\ cam_pc[c] = "idle"
    /\ ~MutexFree(mutexOwner)
    /\ LET raw == calculate_emotional_state(features, now)
           result == tracker_update(tracker, raw)
       IN  /\ raw_state' = raw
           /\ tracker' = result.tracker
           /\ smoothed_state' = result.ret
           /\ cam_smoothed' = [cam_smoothed EXCEPT ![c] =
                                  IF result.ret # NoContext THEN result.ret
                                  ELSE result.tracker.current]
           /\ cam_pc' = [cam_pc EXCEPT ![c] =
                            IF result.ret # NoContext THEN "locking"
                            ELSE "unchanged"]
    /\ UNCHANGED <<chatVars, script, history, emotional_context,
                   system_prompt_tokens, pruneVars, smVars, promptVars,
                   cleanVars, sttVars, queryVars, now, frames, free_frames,
                   lock_to, repeats>>

\* the lock is released: the parked handler stores its context
IngestLocked(c) ==
    /\ cam_pc[c] = "locking"
    /\ MutexFree(mutexOwner)
    /\ ~poisoned
    /\ aira_emotion' = cam_smoothed[c]
    /\ cam_pc' = [cam_pc EXCEPT ![c] = "stored"]
    /\ UNCHANGED <<pc, permits, semQueue, mutexOwner, poisoned, task, llm,
                   worker, genIdx, sentence_buffer, tts_chan, tts_closed,
                   curChunk, event_chan, delivered, connected, thinkResult,
                   dispatched, synthLog>>
    /\ UNCHANGED <<script, history, emotional_context, system_prompt_tokens,
                   pruneVars, camVars, smVars, promptVars, cleanVars, sttVars,
                   queryVars, cam_smoothed>>

InitLive ==
    /\ ChatInit
    /\ CamIdle
    /\ PromptIdle /\ CleanIdle /\ SttIdle /\ QueryIdle
    /\ pc = [r \in Requests |-> IF r = 1 THEN "idle" ELSE "absent"]
    /\ script = [r \in Requests |-> ScriptDots]
    /\ history = <<>>
    /\ emotional_context = NoContext
    /\ system_prompt_tokens = DefaultSystemPromptLen \div CHARS_PER_TOKEN
    /\ pruneStage = "off"
    /\ histBefore = <<>>
    /\ new_message_tokens = 0
    /\ cam_pc = [c \in CamRequests |-> "idle"]
    /\ cam_smoothed = [c \in CamRequests |-> NoContext]

\* a client that reads the stream once the worker has queued all the audio
LateRead(r) ==
    /\ worker[r] = "done"
    /\ ClientRecv(r)

\* the steps of turn r that run on the runtime's threads: each needs a
\* thread that is not parked
TurnOnRuntime(r) ==
    /\ ThreadFree
    /\ \/ Arrive(r)
       \/ Spawn(r)
       \/ Return(r)
       \/ TaskStart(r)
       \/ TaskAfterLlm(r)
       \/ TaskJoin(r)
       \/ WorkerRecv(r)
       \/ WorkerExit(r)
       \/ LateRead(r)

\* a synthesis that takes longer than the generation of the whole answer
SlowSynth(r) ==
    /\ llm[r] \notin {"start", "gen", "dispatch"}
    /\ WorkerSynth(r, "ok")

\* the steps of turn r that run on the blocking pool; every engine call
\* returns and succeeds
TurnOnPool(r) ==
    \/ LlmStart(r)
    \/ LlmFragment(r)
    \/ LlmDispatch(r)
    \/ LlmFinish(r)
    \/ LlmTps(r)
    \/ LlmFlush(r)
    \/ SlowSynth(r)

IngestStep(c) ==
    \/ ThreadFree /\ IngestPark(c, NoFace)
    \/ IngestLocked(c)

NextLive ==
    \/ \E r \in Requests : TurnOnRuntime(r)
    \/ \E r \in Requests : TurnOnPool(r)
    \/ \E c \in CamRequests : IngestStep(c)

\* every task that can run is eventually run, every engine call returns, the
\* client keeps consuming and a parked handler takes the lock once it is
\* free; whether and when a frame is posted is up to the client
FairLive ==
    /\ \A r \in Requests : WF_vars(TurnOnRuntime(r))
    /\ \A r \in Requests : WF_vars(TurnOnPool(r))
    /\ \A c \in CamRequests : WF_vars(IngestLocked(c))

SpecLive == InitLive /\ [][NextLive]_vars /\ FairLive

\* C39: every admitted chat turn eventually closes its outbound event
\* stream, whatever the interleaving with other requests, when every engine
\* call returns and the client keeps consuming.
C39_StreamEventuallyCloses ==
    \A r \in Requests : (pc[r] = "admitted") ~> StreamClosed(r)
====
